---- MODULE Spec2Model ----
(***************************************************************************)
(* The request pipeline of the REST API: the in-memory fixed-window rate   *)
(* limiter (lib/api/rate-limit), session and bearer authentication         *)
(* (lib/api/auth) and the route handlers that compose them.                *)
(***************************************************************************)
EXTENDS Integers, Sequences, FiniteSets, TLC

VARIABLES now, rateLimitStore, calls, last, applied, tables, pending

vars == <<now, rateLimitStore, calls, last, applied, tables, pending>>

(***************************************************************************)
(* Bounds.  The window and the limits of the two policies the routes use   *)
(* are scaled down from the source (60 s, 60 and 10 requests).             *)
(***************************************************************************)
MaxTime == 1500
TickMs == 500
WindowMs == 1000
ReadMaxRequests == 2
WriteMaxRequests == 1

MsPerSecond == 1000

\* the longest list of required permissions handed to a permission guard
MaxRequired == 2

Users == {"u1", "u2"}

Max(a, b) == IF a >= b THEN a ELSE b

(***************************************************************************)
(* lib/api/types: HttpStatus and ApiErrorCode                              *)
(***************************************************************************)
HttpStatus ==
  [OK |-> 200, CREATED |-> 201, NO_CONTENT |-> 204, BAD_REQUEST |-> 400,
   UNAUTHORIZED |-> 401, FORBIDDEN |-> 403, NOT_FOUND |-> 404,
   CONFLICT |-> 409, UNPROCESSABLE_ENTITY |-> 422,
   TOO_MANY_REQUESTS |-> 429, INTERNAL_SERVER_ERROR |-> 500]

ApiErrorCode ==
  [UNAUTHORIZED |-> "UNAUTHORIZED", INVALID_TOKEN |-> "INVALID_TOKEN",
   TOKEN_EXPIRED |-> "TOKEN_EXPIRED",
   VALIDATION_ERROR |-> "VALIDATION_ERROR", INVALID_INPUT |-> "INVALID_INPUT",
   MISSING_FIELD |-> "MISSING_FIELD", NOT_FOUND |-> "NOT_FOUND",
   ALREADY_EXISTS |-> "ALREADY_EXISTS",
   RATE_LIMIT_EXCEEDED |-> "RATE_LIMIT_EXCEEDED",
   INTERNAL_ERROR |-> "INTERNAL_ERROR", DATABASE_ERROR |-> "DATABASE_ERROR"]

(***************************************************************************)
(* lib/api/rate-limit                                                      *)
(***************************************************************************)
\* the table of the source, at its own values
RateLimitsSource ==
  [api   |-> [windowMs |-> 15 * 60 * 1000, maxRequests |-> 100,
              keyPrefix |-> "api"],
   auth  |-> [windowMs |-> 15 * 60 * 1000, maxRequests |-> 5,
              keyPrefix |-> "auth"],
   read  |-> [windowMs |-> 1 * 60 * 1000, maxRequests |-> 60,
              keyPrefix |-> "read"],
   write |-> [windowMs |-> 1 * 60 * 1000, maxRequests |-> 10,
              keyPrefix |-> "write"]]

\* the two policies the handlers use, scaled down
RateLimits ==
  [read  |-> [windowMs |-> WindowMs, maxRequests |-> ReadMaxRequests,
              keyPrefix |-> "read"],
   write |-> [windowMs |-> WindowMs, maxRequests |-> WriteMaxRequests,
              keyPrefix |-> "write"]]

Policies == {"read", "write"}

getRateLimitKeyForUser(userId) == <<"user", userId>>

\* the client addresses a forwarding header can name
Ips == {"ip1", "ip2"}

\* String.prototype.trim on the entries a header can hold
Trim(entry) ==
  IF entry \in {" ip1", "ip1 ", " ip1 "} THEN "ip1"
  ELSE IF entry \in {" ip2", "ip2 ", " ip2 "} THEN "ip2"
  ELSE IF entry = " " THEN ""
  ELSE entry

\* a header split at its commas is a non-empty string: it is present and is
\* not the empty string, whose split is the one empty entry
Truthy(entries) == entries # <<>> /\ entries # <<"">>

\* forwardedFor is X-Forwarded-For split at its commas (empty when the header
\* is absent or empty), realIp is X-Real-IP (empty when absent)
getRateLimitKeyForIp(forwardedFor, realIp) ==
  IF Truthy(forwardedFor) THEN <<Trim(forwardedFor[1])>>
  ELSE IF realIp # "" THEN <<realIp>>
  ELSE <<"anonymous">>

RateLimitKeys ==
  {getRateLimitKeyForUser(u) : u \in Users}
    \cup {<<a>> : a \in Ips \cup {"anonymous"}}

FullKeyOfOneCaller(key, config) ==
  <<config.keyPrefix, getRateLimitKeyForUser("u1")>>

\* fullKey = keyPrefix ? `${keyPrefix}:${key}` : key
FullKey(key, config) ==
  IF config.keyPrefix # "" THEN <<config.keyPrefix, key>> ELSE <<"", key>>

FullKeys == {FullKey(k, RateLimits[p]) : k \in RateLimitKeys, p \in Policies}

\* a key the Map holds no value for
NoEntry == [present |-> FALSE, count |-> 0, resetAt |-> 0]

ExpiredInclusive(entry, t) == entry.resetAt <= t

\* the test `entry.resetAt < now` of checkRateLimit and cleanupExpiredEntries
Expired(entry, t) == entry.resetAt < t

cleanupEveryEntry(store, t) == [k \in DOMAIN store |-> NoEntry]

cleanupExpiredEntries(store, t) ==
  [k \in DOMAIN store |->
     IF store[k].present /\ Expired(store[k], t) THEN NoEntry ELSE store[k]]

\* a message; `at` is the time a rate-limit message names
Msg(text) == [text |-> text, at |-> 0]

NoError == [code |-> "", message |-> Msg("")]

RemainingBeforeCall(limit, count) == Max(0, limit - count) + 1

\* Math.max(0, config.maxRequests - entry.count)
Remaining(limit, count) == Max(0, limit - count)

LimitReachedAbove(entry, config) == entry.count > config.maxRequests

\* the test `entry.count >= config.maxRequests`
LimitReached(entry, config) == entry.count >= config.maxRequests

ResetSeconds(resetAt) == resetAt \div MsPerSecond

RejectedSlides(entry) == [entry EXCEPT !.resetAt = @ + WindowMs]

RejectedCounts(entry) == [entry EXCEPT !.count = @ + 1]

\* what a rejected call leaves in the store for its key: the entry as found
Rejected(entry) == entry

\* checkRateLimit(key, config) at time t; sweep is the outcome of
\* Math.random() < 0.1.  The result carries the store the call leaves.
checkRateLimit(store, key, config, t, sweep) ==
  LET swept   == IF sweep THEN cleanupExpiredEntries(store, t) ELSE store
      \* the counters the sweep deleted
      deleted == {[key |-> k, resetAt |-> store[k].resetAt] :
                    k \in {j \in DOMAIN store :
                             store[j].present /\ ~swept[j].present}}
      fullKey == FullKey(key, config)
      found   == swept[fullKey]
      fresh   == ~found.present \/ Expired(found, t)
      entry   == IF fresh
                 THEN [present |-> TRUE, count |-> 0,
                       resetAt |-> t + config.windowMs]
                 ELSE found
      info    == [limit |-> config.maxRequests,
                  remaining |-> Remaining(config.maxRequests, entry.count),
                  reset |-> ResetSeconds(entry.resetAt)]
  IN  IF LimitReached(entry, config)
      THEN [allowed |-> FALSE, info |-> info,
            error |-> [code |-> ApiErrorCode.RATE_LIMIT_EXCEEDED,
                       message |-> [text |-> "Rate limit exceeded. Try again after",
                                    at |-> entry.resetAt]],
            fullKey |-> fullKey, before |-> store[fullKey], fresh |-> fresh,
            deleted |-> deleted,
            store |-> [swept EXCEPT ![fullKey] = Rejected(entry)]]
      ELSE [allowed |-> TRUE,
            info |-> [info EXCEPT !.remaining = info.remaining - 1],
            error |-> NoError,
            fullKey |-> fullKey, before |-> store[fullKey], fresh |-> fresh,
            deleted |-> deleted,
            store |-> [swept EXCEPT ![fullKey] =
                          [entry EXCEPT !.count = entry.count + 1]]]

(***************************************************************************)
(* lib/api/utils and lib/api/auth                                          *)
(***************************************************************************)
NoUser == ""

\* what the identity provider answers for the session cookie of a request:
\* no session, a reported error, a thrown failure, or the session's user
Sessions == {"none", "error", "throws"} \cup Users

\* the Authorization header: absent, another scheme, or Bearer <token>; a
\* token is empty, a user's valid token, one the provider rejects, or one
\* whose verification throws
Tokens == {"", "expired", "unreachable"} \cup Users

Authorizations ==
  {[scheme |-> "none", token |-> ""], [scheme |-> "Basic", token |-> "u1"]}
    \cup {[scheme |-> "Bearer", token |-> t] : t \in Tokens}

NoToken == [null |-> TRUE, value |-> ""]

extractBearerToken(authorization) ==
  IF authorization.scheme # "Bearer"
  THEN NoToken
  ELSE [null |-> FALSE, value |-> authorization.token]

\* getSession(cookies): null unless the provider returns a session
getSession(session) == IF session \in Users THEN session ELSE NoUser

verifyApiAuth(session) ==
  IF session = "throws"
  THEN [user |-> NoUser,
        error |-> [code |-> ApiErrorCode.INVALID_TOKEN,
                   message |-> Msg("Invalid authentication")],
        steps |-> <<"verifyApiAuth">>]
  ELSE IF getSession(session) = NoUser
  THEN [user |-> NoUser,
        error |-> [code |-> ApiErrorCode.UNAUTHORIZED,
                   message |-> Msg("Authentication required")],
        steps |-> <<"verifyApiAuth">>]
  ELSE [user |-> getSession(session), error |-> NoError,
        steps |-> <<"verifyApiAuth">>]

verifyApiBearerAuth(authorization) ==
  LET token == extractBearerToken(authorization)
  IN  IF token.null \/ token.value = ""
      THEN [user |-> NoUser,
            error |-> [code |-> ApiErrorCode.UNAUTHORIZED,
                       message |-> Msg("Bearer token required")],
            steps |-> <<"verifyApiBearerAuth">>]
      ELSE IF token.value = "unreachable"
      THEN [user |-> NoUser,
            error |-> [code |-> ApiErrorCode.INVALID_TOKEN,
                       message |-> Msg("Token verification failed")],
            steps |-> <<"verifyApiBearerAuth", "auth.getUser">>]
      ELSE IF token.value \notin Users
      THEN [user |-> NoUser,
            error |-> [code |-> ApiErrorCode.INVALID_TOKEN,
                       message |-> Msg("Invalid or expired token")],
            steps |-> <<"verifyApiBearerAuth", "auth.getUser">>]
      ELSE [user |-> token.value, error |-> NoError,
            steps |-> <<"verifyApiBearerAuth", "auth.getUser">>]

OrErrorLast(a, b) == IF b # NoError THEN b ELSE a

\* `a || b` on the optional error of an authentication result
OrError(a, b) == IF a # NoError THEN a ELSE b

AuthenticateBearerFirst(req) ==
  LET bearerAuth  == verifyApiBearerAuth(req.authorization)
      sessionAuth == IF bearerAuth.user = NoUser
                     THEN verifyApiAuth(req.session)
                     ELSE [user |-> bearerAuth.user, error |-> NoError,
                           steps |-> <<>>]
  IN  [user  |-> IF bearerAuth.user # NoUser THEN bearerAuth.user
                 ELSE sessionAuth.user,
       error |-> OrError(bearerAuth.error, sessionAuth.error),
       steps |-> bearerAuth.steps \o sessionAuth.steps]

\* the authentication block every profile and project handler opens with
Authenticate(req) ==
  LET sessionAuth == verifyApiAuth(req.session)
      bearerAuth  == IF sessionAuth.user = NoUser
                     THEN verifyApiBearerAuth(req.authorization)
                     ELSE [user |-> sessionAuth.user, error |-> NoError,
                           steps |-> <<>>]
  IN  [user  |-> IF sessionAuth.user # NoUser THEN sessionAuth.user
                 ELSE bearerAuth.user,
       error |-> OrError(sessionAuth.error, bearerAuth.error),
       steps |-> sessionAuth.steps \o bearerAuth.steps]

Bodies == {"valid", "schema", "json"}

\* validateRequestBody: request.json() throws, schema.parse throws a ZodError,
\* or the parsed data is returned
validateRequestBody(body) ==
  IF body = "json"
  THEN [code |-> ApiErrorCode.INVALID_INPUT, message |-> Msg("Invalid JSON body")]
  ELSE IF body = "schema"
  THEN [code |-> ApiErrorCode.VALIDATION_ERROR,
        message |-> Msg("Invalid request body")]
  ELSE NoError

NoHeaders == [present |-> FALSE, limit |-> 0, remaining |-> 0, reset |-> 0]

createApiResponse(status) ==
  [status |-> status, code |-> "", message |-> Msg(""), headers |-> NoHeaders]

createErrorResponse(code, message, status) ==
  [status |-> status, code |-> code, message |-> message, headers |-> NoHeaders]

addRateLimitHeaders(response, info) ==
  [response EXCEPT !.headers =
     [present |-> TRUE, limit |-> info.limit, remaining |-> info.remaining,
      reset |-> info.reset]]

(***************************************************************************)
(* The profile and project handlers.  A request carries what the handler   *)
(* reads: the session, the Authorization header, the body, the route's id  *)
(* parameter and what the data store answers.                              *)
(***************************************************************************)
DbOutcomes == {"ok", "notfound", "error"}

\* Requests vary the credentials (with a valid body and a data store that
\* answers) or, for a caller with a session, the body and the data store's
\* answer.  A matched /projects/[id] route always has its id parameter.
Requests ==
  [session : Sessions, authorization : Authorizations, body : {"valid"},
   db : {"ok"}, hasId : {TRUE}]
    \cup [session : Users, authorization : {[scheme |-> "none", token |-> ""]},
          body : Bodies, db : DbOutcomes, hasId : {TRUE}]

\* the requests of callers with a session, a valid body and a data store
\* that answers
Callers ==
  [session : Users, authorization : {[scheme |-> "none", token |-> ""]},
   body : {"valid"}, db : {"ok"}, hasId : {TRUE}]

NoCall ==
  [called |-> FALSE, fullKey |-> <<>>, policy |-> "", before |-> NoEntry,
   after |-> NoEntry, fresh |-> FALSE, allowed |-> FALSE, info |-> NoHeaders,
   code |-> "", deleted |-> {}]

\* what one checkRateLimit call saw and left, for the policy it was given
Call(policy, rl) ==
  [called |-> TRUE, fullKey |-> rl.fullKey, policy |-> policy,
   before |-> rl.before, after |-> rl.store[rl.fullKey], fresh |-> rl.fresh,
   allowed |-> rl.allowed,
   info |-> [present |-> TRUE, limit |-> rl.info.limit,
             remaining |-> rl.info.remaining, reset |-> rl.info.reset],
   code |-> rl.error.code, deleted |-> rl.deleted]

Outcome(response, steps, store, user, call) ==
  [response |-> response, steps |-> steps, store |-> store, user |-> user,
   call |-> call]

\* if (!projectId) return createErrorResponse(MISSING_FIELD, ..., 400)
MissingId(store) ==
  Outcome(createErrorResponse(ApiErrorCode.MISSING_FIELD,
                              Msg("Project ID is required"),
                              HttpStatus.BAD_REQUEST),
          <<>>, store, NoUser, NoCall)

\* if (!user) return createErrorResponse(error?.code || UNAUTHORIZED, ...)
Unauthenticated(auth, store) ==
  Outcome(createErrorResponse(
            IF auth.error.code # "" THEN auth.error.code
            ELSE ApiErrorCode.UNAUTHORIZED,
            IF auth.error.message # Msg("") THEN auth.error.message
            ELSE Msg("Authentication required"),
            HttpStatus.UNAUTHORIZED),
          auth.steps, store, NoUser, NoCall)

\* the response of a handler that got past the rate limit, with its headers
Limited(auth, policy, rl, response, steps) ==
  Outcome(addRateLimitHeaders(response, rl.info),
          auth.steps \o <<"checkRateLimit">> \o steps, rl.store, auth.user,
          Call(policy, rl))

TooManyRequests(rl) ==
  createErrorResponse(rl.error.code, rl.error.message,
                      HttpStatus.TOO_MANY_REQUESTS)

Invalid(validationError) ==
  createErrorResponse(validationError.code, validationError.message,
                      HttpStatus.BAD_REQUEST)

NotFound(message) ==
  createErrorResponse(ApiErrorCode.NOT_FOUND, Msg(message), HttpStatus.NOT_FOUND)

InternalError(message) ==
  createErrorResponse(ApiErrorCode.INTERNAL_ERROR, Msg(message),
                      HttpStatus.INTERNAL_SERVER_ERROR)

handleGetProfile(db) ==
  IF db = "notfound" THEN NotFound("Profile not found")
  ELSE IF db = "error" THEN InternalError("Failed to fetch profile")
  ELSE createApiResponse(HttpStatus.OK)

\* updateProfile throws on any data-store error, a missing row included
handleUpdateProfile(db) ==
  IF db = "ok" THEN createApiResponse(HttpStatus.OK)
  ELSE InternalError("Failed to update profile")

\* GET /api/v1/profile
ProfileGET(store, req, t, sweep) ==
  LET auth == Authenticate(req)
  IN  IF auth.user = NoUser THEN Unauthenticated(auth, store)
      ELSE
        LET rl == checkRateLimit(store, getRateLimitKeyForUser(auth.user),
                                 RateLimits.read, t, sweep)
        IN  IF rl.allowed
            THEN Limited(auth, "read", rl, handleGetProfile(req.db),
                         <<"handler">>)
            ELSE Limited(auth, "read", rl, TooManyRequests(rl), <<>>)

\* PUT /api/v1/profile
ProfilePUT(store, req, t, sweep) ==
  LET auth == Authenticate(req)
  IN  IF auth.user = NoUser THEN Unauthenticated(auth, store)
      ELSE
        LET rl == checkRateLimit(store, getRateLimitKeyForUser(auth.user),
                                 RateLimits.write, t, sweep)
            validationError == validateRequestBody(req.body)
        IN  IF ~rl.allowed
            THEN Limited(auth, "write", rl, TooManyRequests(rl), <<>>)
            ELSE IF validationError # NoError
            THEN Limited(auth, "write", rl, Invalid(validationError),
                         <<"validateRequestBody">>)
            ELSE Limited(auth, "write", rl, handleUpdateProfile(req.db),
                         <<"validateRequestBody", "handler">>)

\* GET /api/v1/projects
ProjectsGET(store, req, t, sweep) ==
  LET auth == Authenticate(req)
  IN  IF auth.user = NoUser THEN Unauthenticated(auth, store)
      ELSE
        LET rl == checkRateLimit(store, getRateLimitKeyForUser(auth.user),
                                 RateLimits.read, t, sweep)
        IN  IF ~rl.allowed
            THEN Limited(auth, "read", rl, TooManyRequests(rl), <<>>)
            ELSE IF req.db = "error"
            THEN Limited(auth, "read", rl,
                         InternalError("Failed to fetch projects"),
                         <<"handler">>)
            ELSE Limited(auth, "read", rl, createApiResponse(HttpStatus.OK),
                         <<"handler">>)

\* POST /api/v1/projects
ProjectsPOST(store, req, t, sweep) ==
  LET auth == Authenticate(req)
  IN  IF auth.user = NoUser THEN Unauthenticated(auth, store)
      ELSE
        LET rl == checkRateLimit(store, getRateLimitKeyForUser(auth.user),
                                 RateLimits.write, t, sweep)
            validationError == validateRequestBody(req.body)
        IN  IF ~rl.allowed
            THEN Limited(auth, "write", rl, TooManyRequests(rl), <<>>)
            ELSE IF validationError # NoError
            THEN Limited(auth, "write", rl, Invalid(validationError),
                         <<"validateRequestBody">>)
            ELSE IF req.db # "ok"
            THEN Limited(auth, "write", rl,
                         InternalError("Failed to create project"),
                         <<"validateRequestBody", "handler">>)
            ELSE Limited(auth, "write", rl,
                         createApiResponse(HttpStatus.CREATED),
                         <<"validateRequestBody", "handler">>)

\* GET /api/v1/projects/:id
ProjectGET(store, req, t, sweep) ==
  LET auth == Authenticate(req)
  IN  IF ~req.hasId THEN MissingId(store)
      ELSE IF auth.user = NoUser THEN Unauthenticated(auth, store)
      ELSE
        LET rl == checkRateLimit(store, getRateLimitKeyForUser(auth.user),
                                 RateLimits.read, t, sweep)
        IN  IF ~rl.allowed
            THEN Limited(auth, "read", rl, TooManyRequests(rl), <<>>)
            ELSE IF req.db = "notfound"
            THEN Limited(auth, "read", rl, NotFound("Project not found"),
                         <<"handler">>)
            ELSE IF req.db = "error"
            THEN Limited(auth, "read", rl,
                         InternalError("Failed to fetch project"),
                         <<"handler">>)
            ELSE Limited(auth, "read", rl, createApiResponse(HttpStatus.OK),
                         <<"handler">>)

\* PUT /api/v1/projects/:id
ProjectPUT(store, req, t, sweep) ==
  LET auth == Authenticate(req)
  IN  IF ~req.hasId THEN MissingId(store)
      ELSE IF auth.user = NoUser THEN Unauthenticated(auth, store)
      ELSE
        LET rl == checkRateLimit(store, getRateLimitKeyForUser(auth.user),
                                 RateLimits.write, t, sweep)
            validationError == validateRequestBody(req.body)
        IN  IF ~rl.allowed
            THEN Limited(auth, "write", rl, TooManyRequests(rl), <<>>)
            ELSE IF validationError # NoError
            THEN Limited(auth, "write", rl, Invalid(validationError),
                         <<"validateRequestBody">>)
            ELSE IF req.db = "notfound"
            THEN Limited(auth, "write", rl, NotFound("Project not found"),
                         <<"validateRequestBody", "handler">>)
            ELSE IF req.db = "error"
            THEN Limited(auth, "write", rl,
                         InternalError("Failed to update project"),
                         <<"validateRequestBody", "handler">>)
            ELSE Limited(auth, "write", rl, createApiResponse(HttpStatus.OK),
                         <<"validateRequestBody", "handler">>)

\* DELETE /api/v1/projects/:id; deleting no row is no error
ProjectDELETE(store, req, t, sweep) ==
  LET auth == Authenticate(req)
  IN  IF ~req.hasId THEN MissingId(store)
      ELSE IF auth.user = NoUser THEN Unauthenticated(auth, store)
      ELSE
        LET rl == checkRateLimit(store, getRateLimitKeyForUser(auth.user),
                                 RateLimits.write, t, sweep)
        IN  IF ~rl.allowed
            THEN Limited(auth, "write", rl, TooManyRequests(rl), <<>>)
            ELSE IF req.db = "error"
            THEN Limited(auth, "write", rl,
                         InternalError("Failed to delete project"),
                         <<"handler">>)
            ELSE Limited(auth, "write", rl,
                         createApiResponse(HttpStatus.NO_CONTENT),
                         <<"handler">>)

\* what getHealthCheckData answers
HealthChecks == {"healthy", "unhealthy", "throws"}

\* GET /api/health: no authentication and no rate limit
HealthGET(store, req) ==
  Outcome(createApiResponse(IF req.health = "healthy" THEN 200 ELSE 503),
          <<"getHealthCheckData">>, store, NoUser, NoCall)

(***************************************************************************)
(* lib/audit/logger: the client address of an audit event                  *)
(***************************************************************************)
Undefined == [defined |-> FALSE, value |-> ""]

Defined(value) == [defined |-> TRUE, value |-> value]

getClientIpRealFirst(forwarded, realIp) ==
  IF realIp # "" THEN Defined(realIp)
  ELSE IF Truthy(forwarded) THEN Defined(Trim(forwarded[1]))
  ELSE Undefined

getClientIp(forwarded, realIp) ==
  IF Truthy(forwarded) THEN Defined(Trim(forwarded[1]))
  ELSE IF realIp # "" THEN Defined(realIp)
  ELSE Undefined

\* the values of X-Forwarded-For, split at the commas, and of X-Real-IP
ForwardedFors ==
  {<<>>, <<"">>, <<"ip1">>, <<"ip2 ", "ip1">>, <<"", "ip1">>, <<"ip2">>}

RealIps == {"", "ip1", "ip2"}

(***************************************************************************)
(* The tables the admin handlers read and write: profiles (one row per     *)
(* auth user, deleted with it), audit_logs, and the refunds created at     *)
(* the payment platform.                                                   *)
(***************************************************************************)
UserIds == Users \cup {"u3"}

\* no user has the id yet
Absent == "absent"

\* the user of the id was deleted
Deleted == "deleted"

InitialDb ==
  [profiles   |-> [u \in UserIds |->
                     IF u = "u1" THEN "super_admin"
                     ELSE IF u = "u2" THEN "admin" ELSE "user"],
   audit_logs |-> {},
   refunds    |-> {}]

\* what the insert into audit_logs does: it succeeds, returns an error, or
\* throws
AuditOutcomes == {"ok", "error", "throws"}

logRethrows(entry, outcome, data) ==
  [threw  |-> outcome = "throws",
   tables |-> IF outcome = "ok"
              THEN [data EXCEPT !.audit_logs = @ \cup {entry}]
              ELSE data]

\* AuditLogger.log: the row is written when the insert succeeds; an error
\* and an exception are logged to the console
log(entry, outcome, data) ==
  [threw  |-> FALSE,
   tables |-> IF outcome = "ok"
              THEN [data EXCEPT !.audit_logs = @ \cup {entry}]
              ELSE data]

\* the action of the row is `admin.${action}`
logAdminAction(action, adminId, resourceType, resourceId, req, data) ==
  log([action |-> <<"admin", action>>, resource_type |-> resourceType,
       resource_id |-> resourceId, user_id |-> adminId,
       ip_address |-> getClientIp(req.forwardedFor, req.realIp)],
      req.audit, data)

NotAdminRole(role) == ~(role = "admin" \/ role = "super_admin")

\* role !== 'super_admin'
NotSuperAdmin(role) == role # "super_admin"

\* the one subscription id the requests name
SubscriptionId == "sub1"

(***************************************************************************)
(* The admin subscriptions handler.  Its helpers rateLimit,                *)
(* authenticateRequest and the lib/api/response constructors are imported  *)
(* by the route and defined in no source file; they follow the             *)
(* specification: rateLimit checks the policy's counter of the client      *)
(* address, authenticateRequest tries the session, then the bearer token.  *)
(***************************************************************************)
UserRole == [USER |-> "user", ADMIN |-> "admin", SUPER_ADMIN |-> "super_admin"]

UserRoles == {UserRole.USER, UserRole.ADMIN, UserRole.SUPER_ADMIN}

\* what the profiles table answers for the caller: an error, or a row whose
\* role may be empty or a string that is no role
ProfileLookups ==
  {[error |-> TRUE, role |-> ""]}
    \cup {[error |-> FALSE, role |-> r] : r \in UserRoles \cup {"", "owner"}}

getUserRoleUnvalidated(lookup) ==
  IF lookup.error \/ lookup.role = "" THEN UserRole.USER ELSE lookup.role

getUserRole(lookup) ==
  IF lookup.error \/ lookup.role = "" THEN UserRole.USER
  ELSE IF lookup.role \in UserRoles THEN lookup.role
  ELSE UserRole.USER

isAdmin(role) == role = UserRole.ADMIN \/ role = UserRole.SUPER_ADMIN

rateLimit(store, req, policy, t, sweep) ==
  checkRateLimit(store, getRateLimitKeyForIp(req.forwardedFor, req.realIp),
                 RateLimits[policy], t, sweep)

authenticateRequest(req) ==
  LET auth == Authenticate(req)
  IN  [authenticated |-> auth.user # NoUser, user |-> auth.user]

\* the error kind of a status
StatusCode(status) ==
  IF status = 401 THEN "UNAUTHORIZED"
  ELSE IF status = 403 THEN "FORBIDDEN"
  ELSE IF status = 404 THEN "NOT_FOUND"
  ELSE IF status = 400 THEN "VALIDATION_ERROR"
  ELSE IF status = 429 THEN "RATE_LIMIT_EXCEEDED"
  ELSE "INTERNAL_ERROR"

response_createErrorResponse(message, status) ==
  [status |-> status, code |-> StatusCode(status), message |-> Msg(message),
   headers |-> NoHeaders]

response_createApiResponse(status) ==
  [status |-> status, code |-> "", message |-> Msg(""), headers |-> NoHeaders]

\* the 429 of an admin route: the headers carry the result of rateLimit,
\* X-RateLimit-Reset as the date of the reset time
AdminTooManyRequests(rl) ==
  [response_createErrorResponse("Too many requests", 429) EXCEPT
     !.headers = [present |-> TRUE, limit |-> rl.info.limit,
                  remaining |-> rl.info.remaining,
                  reset |-> rl.store[rl.fullKey].resetAt]]

SubscriptionActions == {"cancel", "reactivate", "refund", "archive"}

\* the body of POST /admin/subscriptions: not JSON, or an object whose
\* action and subscription_id may be missing
AdminBodies ==
  {[json |-> FALSE, action |-> "", hasSubscriptionId |-> FALSE]}
    \cup [json : {TRUE}, action : SubscriptionActions \cup {""},
          hasSubscriptionId : BOOLEAN]

\* what the subscriptions table answers for subscription_id
SubscriptionLookups ==
  {[found |-> FALSE, stripe |-> FALSE, status |-> "",
    cancel_at_period_end |-> FALSE]}
    \cup [found : {TRUE}, stripe : BOOLEAN, status : {"active", "canceled"},
          cancel_at_period_end : BOOLEAN]

\* what stripe.invoices.list answers
InvoiceLists == {"none", "unpaid", "paid"}

AdminRequests ==
  LET base == [forwardedFor |-> <<"ip1">>, realIp |-> "", session |-> "u1",
               authorization |-> [scheme |-> "none", token |-> ""],
               profile |-> [error |-> FALSE, role |-> "super_admin"],
               body |-> [json |-> TRUE, action |-> "cancel",
                         hasSubscriptionId |-> TRUE],
               subscription |-> [found |-> TRUE, stripe |-> TRUE,
                                 status |-> "active",
                                 cancel_at_period_end |-> FALSE],
               stripeUp |-> TRUE, invoices |-> "paid", audit |-> "ok"]
  IN  {[base EXCEPT !.forwardedFor = f, !.realIp = r] :
         f \in {<<>>, <<"ip1">>, <<"ip2 ", "ip1">>}, r \in {"", "ip1"}}
      \* the Authorization header is read when the session names no user
      \cup {[base EXCEPT !.session = c] : c \in Sessions}
      \cup {[base EXCEPT !.session = c, !.authorization = a] :
              c \in Sessions \ Users, a \in Authorizations}
      \cup {[base EXCEPT !.profile = l] : l \in ProfileLookups}
      \cup {[base EXCEPT !.profile.role = r, !.body = b] :
              r \in {"admin", "super_admin"}, b \in AdminBodies}
      \* the subscriptions table is read once the body has its fields
      \cup {[base EXCEPT !.profile.role = r, !.body.action = a,
                         !.subscription = d] :
              r \in {"admin", "super_admin"}, a \in SubscriptionActions,
              d \in SubscriptionLookups}
      \* the payment platform is called once the subscription allows the
      \* action, its invoices are listed for a refund, and the audit row is
      \* written once the platform has answered
      \cup {[base EXCEPT !.profile.role = r, !.body.action = a,
                         !.subscription.status = "canceled",
                         !.subscription.cancel_at_period_end = TRUE,
                         !.stripeUp = u] :
              r \in {"admin", "super_admin"}, a \in SubscriptionActions,
              u \in BOOLEAN}
      \cup {[base EXCEPT !.profile.role = r, !.body.action = "refund",
                         !.subscription.status = "canceled",
                         !.subscription.cancel_at_period_end = TRUE,
                         !.invoices = i] :
              r \in {"admin", "super_admin"}, i \in InvoiceLists}
      \cup {[base EXCEPT !.profile.role = r, !.body.action = a,
                         !.subscription.status = "canceled",
                         !.subscription.cancel_at_period_end = TRUE,
                         !.audit = w] :
              r \in {"admin", "super_admin"}, a \in SubscriptionActions,
              w \in AuditOutcomes}

\* the caller's profiles row as the table has it; .single() reports an error
\* when there is no row
Lookup(data, userId, down) ==
  IF down \/ data.profiles[userId] \in {Absent, Deleted}
  THEN [error |-> TRUE, role |-> ""]
  ELSE [error |-> FALSE, role |-> data.profiles[userId]]

\* the profile lookup of a request is the one the table answers
Consistent(req, data) ==
  LET auth == authenticateRequest(req)
  IN  auth.authenticated =>
        req.profile = Lookup(data, auth.user, req.profile.error)

AdminOutcome(response, steps, rl, user, data, detail) ==
  [response |-> response, steps |-> steps, store |-> rl.store, user |-> user,
   call |-> Call("write", rl), tables |-> data, detail |-> detail]

Detail(req, role, operation, target, data) ==
  [role |-> role, operation |-> operation, target |-> target,
   audit |-> req.audit, profile |-> req.profile,
   requested |-> IF "body" \in DOMAIN req /\ "role" \in DOMAIN req.body
                 THEN req.body.role ELSE "",
   ip |-> getClientIp(req.forwardedFor, req.realIp), before |-> data]

\* the detail of a request answered before the handler read its body, its
\* target or the caller's profile
Refused(req, data) ==
  [role |-> "", operation |-> "", target |-> "", audit |-> "",
   profile |-> [error |-> FALSE, role |-> ""], requested |-> "",
   ip |-> getClientIp(req.forwardedFor, req.realIp), before |-> data]

\* the switch on body.action, entered once the subscription is found; the
\* result is the response, the calls made and the tables left
SubscriptionAction(req, role, user, data) ==
  LET sub == req.subscription
      answer(response, steps) ==
        [response |-> response, steps |-> steps, tables |-> data]
      noStripe ==
        answer(response_createErrorResponse("No Stripe subscription found",
                                            400), <<>>)
      failed(steps) ==
        answer(response_createErrorResponse(
                 "Failed to process subscription action", 500), steps)
      audited(action, steps, written) ==
        LET entry == logAdminAction(action, user, "subscription",
                                    SubscriptionId, req, written)
        IN  [response |->
               IF entry.threw
               THEN response_createErrorResponse(
                      "Failed to process subscription action", 500)
               ELSE response_createApiResponse(200),
             steps |-> steps \o <<"audit">>, tables |-> entry.tables]
  IN  CASE req.body.action = "cancel" ->
             IF ~sub.stripe THEN noStripe
             ELSE IF ~req.stripeUp
             THEN failed(<<"stripe.subscriptions.update">>)
             ELSE audited("subscription_canceled",
                          <<"stripe.subscriptions.update",
                            "subscriptions.update">>, data)
        [] req.body.action = "reactivate" ->
             IF ~sub.stripe THEN noStripe
             ELSE IF sub.status # "canceled" \/ ~sub.cancel_at_period_end
             THEN answer(response_createErrorResponse(
                           "Subscription is not scheduled for cancellation",
                           400), <<>>)
             ELSE IF ~req.stripeUp
             THEN failed(<<"stripe.subscriptions.update">>)
             ELSE audited("subscription_reactivated",
                          <<"stripe.subscriptions.update",
                            "subscriptions.update">>, data)
        [] req.body.action = "refund" ->
             IF ~sub.stripe THEN noStripe
             ELSE IF NotSuperAdmin(role)
             THEN answer(response_createErrorResponse(
                           "Forbidden: Super admin access required for refunds",
                           403), <<>>)
             ELSE IF ~req.stripeUp THEN failed(<<"stripe.invoices.list">>)
             ELSE IF req.invoices = "none"
             THEN answer(response_createErrorResponse(
                           "No invoices found for this subscription", 404),
                         <<"stripe.invoices.list">>)
             ELSE IF req.invoices = "unpaid"
             THEN answer(response_createErrorResponse(
                           "No payment found for the latest invoice", 400),
                         <<"stripe.invoices.list">>)
             ELSE audited("refund_issued",
                          <<"stripe.invoices.list", "stripe.refunds.create">>,
                          [data EXCEPT !.refunds =
                             @ \cup {[subscription |-> SubscriptionId,
                                      refunded_by_id |-> user]}])
        [] OTHER ->
             answer(response_createErrorResponse("Invalid action", 400), <<>>)

\* POST /api/v1/admin/subscriptions
SubscriptionsPOST(store, data, req, t, sweep) ==
  LET rl     == rateLimit(store, req, "write", t, sweep)
      auth   == authenticateRequest(req)
      role   == getUserRole(req.profile)
      act    == SubscriptionAction(req, role, auth.user, data)
      target == IF req.body.hasSubscriptionId THEN SubscriptionId ELSE ""
      answer(response, steps, user) ==
        AdminOutcome(response, steps, rl, user, data,
                     Detail(req, IF user = NoUser THEN "" ELSE role,
                            req.body.action, target, data))
  IN  IF ~rl.allowed
      THEN AdminOutcome(AdminTooManyRequests(rl), <<"rateLimit">>, rl, NoUser,
                        data, Refused(req, data))
      ELSE IF ~auth.authenticated
      THEN answer(response_createErrorResponse("Unauthorized", 401),
                  <<"rateLimit", "authenticateRequest">>, NoUser)
      ELSE IF ~isAdmin(role)
      THEN answer(response_createErrorResponse(
                    "Forbidden: Admin access required", 403),
                  <<"rateLimit", "authenticateRequest", "getUserRole">>,
                  auth.user)
      ELSE IF ~req.body.json
      THEN answer(response_createErrorResponse(
                    "Failed to process subscription action", 500),
                  <<"rateLimit", "authenticateRequest", "getUserRole",
                    "request.json">>, auth.user)
      ELSE IF req.body.action = "" \/ ~req.body.hasSubscriptionId
      THEN answer(response_createErrorResponse("Missing required fields", 400),
                  <<"rateLimit", "authenticateRequest", "getUserRole",
                    "request.json">>, auth.user)
      ELSE IF ~req.subscription.found
      THEN answer(response_createErrorResponse("Subscription not found", 404),
                  <<"rateLimit", "authenticateRequest", "getUserRole",
                    "request.json", "subscriptions.select">>, auth.user)
      ELSE AdminOutcome(act.response,
                        <<"rateLimit", "authenticateRequest", "getUserRole",
                          "request.json", "subscriptions.select">>
                          \o act.steps,
                        rl, auth.user, act.tables,
                        Detail(req, role, req.body.action, target, data))

(***************************************************************************)
(* The admin users handlers: DELETE /admin/users/:id and POST /admin/users *)
(***************************************************************************)
AdminCaller ==
  [forwardedFor |-> <<"ip1">>, realIp |-> "", session |-> "u1",
   authorization |-> [scheme |-> "none", token |-> ""],
   profile |-> [error |-> FALSE, role |-> "super_admin"], audit |-> "ok"]

\* the callers of an admin users handler: every session, with and without
\* a bearer token, and every answer of the profiles table to a caller who is
\* authenticated
AdminCallers ==
  {[AdminCaller EXCEPT !.session = c, !.authorization = a, !.profile = l] :
     c \in {"u1", "u2"},
     a \in {[scheme |-> "none", token |-> ""],
            [scheme |-> "Bearer", token |-> "u2"]},
     l \in ProfileLookups}
    \cup {[AdminCaller EXCEPT !.session = "none",
                              !.authorization = [scheme |-> "Bearer",
                                                 token |-> "u2"],
                              !.profile = l] : l \in ProfileLookups}
    \* no profile is read for a caller who is not authenticated
    \cup {[AdminCaller EXCEPT !.session = "none"]}

\* count is null when the count query fails
Null == -1

UserDeleteRequests ==
  LET With(caller, target, targetDown, countDown, deleteUser) ==
        [forwardedFor |-> caller.forwardedFor, realIp |-> caller.realIp,
         session |-> caller.session, authorization |-> caller.authorization,
         profile |-> caller.profile, audit |-> caller.audit,
         target |-> target, targetDown |-> targetDown,
         countDown |-> countDown, deleteUser |-> deleteUser]
  IN  {With(c, "u3", FALSE, FALSE, "ok") : c \in AdminCallers}
      \cup {With([AdminCaller EXCEPT !.session = "u2"], t, FALSE, FALSE, "ok") :
              t \in UserIds}
      \cup {With([AdminCaller EXCEPT !.forwardedFor = f], t, td, FALSE,
                 "ok") :
              f \in {<<"ip1">>, <<"ip2">>}, t \in UserIds \cup {""},
              td \in BOOLEAN}
      \* the count and the deletion happen once the target was found
      \cup {With([AdminCaller EXCEPT !.forwardedFor = f], t, FALSE, cd, d) :
              f \in {<<"ip1">>, <<"ip2">>}, t \in UserIds \ {"u1"},
              cd \in BOOLEAN, d \in {"ok", "error"}}
      \cup {With([AdminCaller EXCEPT !.audit = w], t, FALSE, FALSE, "ok") :
              w \in AuditOutcomes, t \in UserIds}

\* DELETE /api/v1/admin/users/:id
UsersDELETE(store, data, req, t, sweep) ==
  LET rl     == rateLimit(store, req, "write", t, sweep)
      auth   == authenticateRequest(req)
      role   == getUserRole(req.profile)
      userId == req.target
      targetUser == Lookup(data, userId, req.targetDown)
      count  == IF req.countDown THEN Null
                ELSE Cardinality({u \in UserIds :
                                    data.profiles[u] = "super_admin"})
      \* the auth user is gone, its profile with it, and the audit rows of
      \* the user keep no user_id
      deleted ==
        [data EXCEPT
           !.profiles[userId] = Deleted,
           !.audit_logs = {IF row.user_id = userId
                           THEN [row EXCEPT !.user_id = ""] ELSE row :
                             row \in data.audit_logs}]
      entry  == logAdminAction("user_deleted", auth.user, "user", userId, req,
                               deleted)
      answer(response, steps, user, left) ==
        AdminOutcome(response, steps, rl, user, left,
                     Detail(req, IF user = NoUser THEN "" ELSE role, "delete",
                            userId, data))
      checked == <<"rateLimit", "authenticateRequest", "getUserRole">>
      counted == IF targetUser.role = "super_admin"
                 THEN <<"profiles.select", "profiles.count">>
                 ELSE <<"profiles.select">>
  IN  IF ~rl.allowed
      THEN AdminOutcome(AdminTooManyRequests(rl), <<"rateLimit">>, rl, NoUser,
                        data, Refused(req, data))
      ELSE IF ~auth.authenticated
      THEN answer(response_createErrorResponse("Unauthorized", 401),
                  <<"rateLimit", "authenticateRequest">>, NoUser, data)
      ELSE IF NotSuperAdmin(role)
      THEN answer(response_createErrorResponse(
                    "Forbidden: Super admin access required", 403),
                  checked, auth.user, data)
      ELSE IF userId = ""
      THEN answer(response_createErrorResponse("User ID required", 400),
                  checked, auth.user, data)
      ELSE IF userId = auth.user
      THEN answer(response_createErrorResponse(
                    "Cannot delete your own account", 400),
                  checked, auth.user, data)
      ELSE IF targetUser.error
      THEN answer(response_createErrorResponse("User not found", 404),
                  checked \o <<"profiles.select">>, auth.user, data)
      ELSE IF targetUser.role = "super_admin" /\ count = 1
      THEN answer(response_createErrorResponse(
                    "Cannot delete the last super admin", 400),
                  checked \o counted, auth.user, data)
      ELSE IF req.deleteUser = "error"
      THEN answer(response_createErrorResponse("Failed to delete user", 500),
                  checked \o counted \o <<"auth.admin.deleteUser">>,
                  auth.user, data)
      ELSE answer(IF entry.threw
                  THEN response_createErrorResponse("Failed to delete user",
                                                    500)
                  ELSE response_createApiResponse(200),
                  checked \o counted \o <<"auth.admin.deleteUser", "audit">>,
                  auth.user, entry.tables)

\* the body of POST /admin/users: not JSON, or an object that may lack
\* email, password or full_name and whose role is any string
UserBodies ==
  {[json |-> FALSE, hasFields |-> FALSE, role |-> ""]}
    \cup [json : {TRUE}, hasFields : BOOLEAN,
          role : {"", "user", "admin", "super_admin"}]

UserCreateRequests ==
  LET With(caller, body, createUser, update, rollback) ==
        [forwardedFor |-> caller.forwardedFor, realIp |-> caller.realIp,
         session |-> caller.session, authorization |-> caller.authorization,
         profile |-> caller.profile, audit |-> caller.audit,
         body |-> body, createUser |-> createUser, update |-> update,
         rollback |-> rollback]
      body == [json |-> TRUE, hasFields |-> TRUE, role |-> "admin"]
  IN  {With(c, body, "ok", "ok", "ok") : c \in AdminCallers}
      \cup {With([AdminCaller EXCEPT !.forwardedFor = f], b, "ok", "ok",
                 "ok") :
              f \in {<<"ip1">>, <<"ip2">>}, b \in UserBodies}
      \cup {With(AdminCaller, body, c, u, r) :
              c \in {"ok", "error"}, u \in {"ok", "error"},
              r \in {"ok", "error", "throws"}}

\* POST /api/v1/admin/users
UsersPOST(store, data, req, t, sweep) ==
  LET rl     == rateLimit(store, req, "write", t, sweep)
      auth   == authenticateRequest(req)
      role   == getUserRole(req.profile)
      free   == {u \in UserIds : data.profiles[u] = Absent}
      id     == CHOOSE u \in free : TRUE
      \* the new auth user, with the profile row the signup trigger inserts
      created  == [data EXCEPT !.profiles[id] = "user"]
      updated  == [data EXCEPT !.profiles[id] = req.body.role]
      answer(response, steps, user, target, left) ==
        AdminOutcome(response, steps, rl, user, left,
                     Detail(req, IF user = NoUser THEN "" ELSE role, "create",
                            target, data))
      checked == <<"rateLimit", "authenticateRequest", "getUserRole">>
      failed  == response_createErrorResponse("Failed to create user", 500)
  IN  IF ~rl.allowed
      THEN AdminOutcome(AdminTooManyRequests(rl), <<"rateLimit">>, rl, NoUser,
                        data, Refused(req, data))
      ELSE IF ~auth.authenticated
      THEN answer(response_createErrorResponse("Unauthorized", 401),
                  <<"rateLimit", "authenticateRequest">>, NoUser, "", data)
      ELSE IF NotSuperAdmin(role)
      THEN answer(response_createErrorResponse(
                    "Forbidden: Super admin access required", 403),
                  checked, auth.user, "", data)
      ELSE IF ~req.body.json
      THEN answer(failed, checked \o <<"request.json">>, auth.user, "", data)
      ELSE IF ~req.body.hasFields
      THEN answer(response_createErrorResponse("Missing required fields", 400),
                  checked \o <<"request.json">>, auth.user, "", data)
      ELSE IF req.body.role \notin {"user", "admin"}
      THEN answer(response_createErrorResponse("Invalid role", 400),
                  checked \o <<"request.json">>, auth.user, "", data)
      ELSE IF req.createUser = "error" \/ free = {}
      THEN answer(failed,
                  checked \o <<"request.json", "auth.admin.createUser">>,
                  auth.user, "", data)
      ELSE IF req.update = "ok"
      THEN answer(response_createApiResponse(201),
                  checked \o <<"request.json", "auth.admin.createUser",
                               "profiles.update">>,
                  auth.user, id, updated)
      ELSE answer(failed,
                  checked \o <<"request.json", "auth.admin.createUser",
                               "profiles.update", "auth.admin.deleteUser">>,
                  auth.user, id,
                  IF req.rollback = "ok"
                  THEN [data EXCEPT !.profiles[id] = Deleted]
                  ELSE created)

(***************************************************************************)
(* lib/permissions: the role-permission table and the checks over it       *)
(***************************************************************************)
Permission ==
  [VIEW_OWN_PROFILE |-> "view_own_profile",
   EDIT_OWN_PROFILE |-> "edit_own_profile",
   DELETE_OWN_ACCOUNT |-> "delete_own_account",
   VIEW_ALL_USERS |-> "view_all_users", EDIT_ALL_USERS |-> "edit_all_users",
   DELETE_USERS |-> "delete_users", VIEW_ANALYTICS |-> "view_analytics",
   VIEW_SYSTEM_HEALTH |-> "view_system_health",
   VIEW_AUDIT_LOGS |-> "view_audit_logs", MANAGE_ADMINS |-> "manage_admins",
   MANAGE_SYSTEM_SETTINGS |-> "manage_system_settings",
   EXPORT_DATA |-> "export_data",
   VIEW_ALL_SUBSCRIPTIONS |-> "view_all_subscriptions",
   MANAGE_SUBSCRIPTIONS |-> "manage_subscriptions",
   ISSUE_REFUNDS |-> "issue_refunds"]

\* Object.values(Permission), in the order of the enumeration
PermissionValues ==
  <<Permission.VIEW_OWN_PROFILE, Permission.EDIT_OWN_PROFILE,
    Permission.DELETE_OWN_ACCOUNT, Permission.VIEW_ALL_USERS,
    Permission.EDIT_ALL_USERS, Permission.DELETE_USERS,
    Permission.VIEW_ANALYTICS, Permission.VIEW_SYSTEM_HEALTH,
    Permission.VIEW_AUDIT_LOGS, Permission.MANAGE_ADMINS,
    Permission.MANAGE_SYSTEM_SETTINGS, Permission.EXPORT_DATA,
    Permission.VIEW_ALL_SUBSCRIPTIONS, Permission.MANAGE_SUBSCRIPTIONS,
    Permission.ISSUE_REFUNDS>>

Permissions == {PermissionValues[i] : i \in DOMAIN PermissionValues}

\* Array.prototype.includes
Includes(array, x) == \E i \in DOMAIN array : array[i] = x

rolePermissionsAdminWithoutOwn ==
  [user |-> <<Permission.VIEW_OWN_PROFILE, Permission.EDIT_OWN_PROFILE,
              Permission.DELETE_OWN_ACCOUNT>>,
   admin |-> <<Permission.VIEW_OWN_PROFILE, Permission.EDIT_OWN_PROFILE,
               Permission.VIEW_ALL_USERS, Permission.EDIT_ALL_USERS,
               Permission.VIEW_ANALYTICS, Permission.VIEW_SYSTEM_HEALTH,
               Permission.VIEW_AUDIT_LOGS, Permission.VIEW_ALL_SUBSCRIPTIONS>>,
   super_admin |-> PermissionValues]

rolePermissions ==
  [user |-> <<Permission.VIEW_OWN_PROFILE, Permission.EDIT_OWN_PROFILE,
              Permission.DELETE_OWN_ACCOUNT>>,
   admin |-> <<Permission.VIEW_OWN_PROFILE, Permission.EDIT_OWN_PROFILE,
               Permission.DELETE_OWN_ACCOUNT, Permission.VIEW_ALL_USERS,
               Permission.EDIT_ALL_USERS, Permission.VIEW_ANALYTICS,
               Permission.VIEW_SYSTEM_HEALTH, Permission.VIEW_AUDIT_LOGS,
               Permission.VIEW_ALL_SUBSCRIPTIONS>>,
   super_admin |-> PermissionValues]

\* rolePermissions is an object literal: besides its own three keys, a lookup
\* finds the properties every object inherits from Object.prototype
ObjectPrototype == {"constructor", "toString", "__proto__"}

\* rolePermissions[role]: the array of an own key, a value that is no array
\* (and is truthy) for an inherited property, undefined for any other string
Property(role) ==
  IF role \in DOMAIN rolePermissions
  THEN [type |-> "array", items |-> rolePermissions[role]]
  ELSE IF role \in ObjectPrototype
  THEN [type |-> "inherited", items |-> <<>>]
  ELSE [type |-> "undefined", items |-> <<>>]

\* rolePermissions[role] || []
getRolePermissions(role) ==
  IF Property(role).type = "undefined"
  THEN [type |-> "array", items |-> <<>>]
  ELSE Property(role)

\* permissions.includes(permission); the call throws a TypeError when
\* permissions is no array
hasPermission(role, permission) ==
  LET permissions == getRolePermissions(role)
  IN  IF permissions.type = "array"
      THEN [threw |-> FALSE, value |-> Includes(permissions.items, permission)]
      ELSE [threw |-> TRUE, value |-> FALSE]

hasAllPermissions(role, permissions) ==
  \A i \in DOMAIN permissions : hasPermission(role, permissions[i]).value

isSuperAdmin(role) == role = UserRole.SUPER_ADMIN

Missing(requiredPermissions, userPermissions) ==
  SelectSeq(requiredPermissions, LAMBDA p : ~Includes(userPermissions, p))

createPermissionGuardOfUser(requiredPermissions, lookup) ==
  LET role == getUserRole(lookup)
      missingPermissions ==
        Missing(requiredPermissions,
                getRolePermissions(UserRole.USER).items)
  IN  [allowed |-> Len(missingPermissions) = 0, role |-> role,
       missingPermissions |-> missingPermissions]

\* the guard createPermissionGuard(requiredPermissions) returns, applied to
\* a caller whose profile lookup answers lookup
createPermissionGuard(requiredPermissions, lookup) ==
  LET role == getUserRole(lookup)
      missingPermissions ==
        Missing(requiredPermissions, getRolePermissions(role).items)
  IN  [allowed |-> Len(missingPermissions) = 0, role |-> role,
       missingPermissions |-> missingPermissions]

checkUserPermissionAlwaysMissing(lookup, permission) ==
  LET role == getUserRole(lookup)
      found == Property(role)
      has == found.type # "undefined" /\ Includes(found.items, permission)
  IN  [hasPermission |-> has, role |-> role,
       missingPermission |-> Defined(permission)]

\* checkUserPermission for a caller whose profile lookup answers lookup;
\* rolePermissions[role]?.includes(permission) || false, on a role that
\* getUserRole has validated
checkUserPermission(lookup, permission) ==
  LET role == getUserRole(lookup)
      found == Property(role)
      has == found.type # "undefined" /\ Includes(found.items, permission)
  IN  [hasPermission |-> has, role |-> role,
       missingPermission |-> IF has THEN Undefined ELSE Defined(permission)]

(***************************************************************************)
(* lib/api/utils: the status of an error code                              *)
(***************************************************************************)
getStatusFromErrorCode(code) ==
  IF code \in {ApiErrorCode.UNAUTHORIZED, ApiErrorCode.INVALID_TOKEN,
               ApiErrorCode.TOKEN_EXPIRED}
  THEN HttpStatus.UNAUTHORIZED
  ELSE IF code = ApiErrorCode.NOT_FOUND THEN HttpStatus.NOT_FOUND
  ELSE IF code = ApiErrorCode.ALREADY_EXISTS THEN HttpStatus.CONFLICT
  ELSE IF code \in {ApiErrorCode.VALIDATION_ERROR, ApiErrorCode.INVALID_INPUT,
                    ApiErrorCode.MISSING_FIELD}
  THEN HttpStatus.BAD_REQUEST
  ELSE IF code = ApiErrorCode.RATE_LIMIT_EXCEEDED
  THEN HttpStatus.TOO_MANY_REQUESTS
  ELSE HttpStatus.INTERNAL_SERVER_ERROR

\* the codes a caller can pass: those of ApiErrorCode, the FORBIDDEN kind of
\* the error contract and a string that is no code
ErrorCodes ==
  {ApiErrorCode[k] : k \in DOMAIN ApiErrorCode} \cup {"FORBIDDEN", "TEAPOT"}

(***************************************************************************)
(* State.  now is Date.now(); rateLimitStore is the module's Map; last is  *)
(* the latest request with its response and the steps its handler ran.     *)
(* calls counts, per key, the checkRateLimit calls made on the counter the *)
(* store holds for it (up to one past the limit of the key's policy).      *)
(* pending holds, per request in flight, where its handler is suspended.    *)
(***************************************************************************)
\* the requests that can be in flight at one time
InFlight == {"r1", "r2", "r3"}

\* no request is being served in the slot
Idle ==
  [pc |-> "idle", route |-> "", session |-> "none", fullKey |-> <<>>,
   seen |-> NoEntry, allowed |-> FALSE, window |-> 0, status |-> 0,
   overlapped |-> FALSE]

NoPending == [r \in InFlight |-> Idle]

\* no function has been applied
NoApplication == [op |-> "", args |-> <<>>, value |-> <<>>]

\* what an admin handler resolved and was given, and the tables before it ran
NoDetail ==
  [role |-> "", operation |-> "", target |-> "", audit |-> "",
   profile |-> [error |-> FALSE, role |-> ""], requested |-> "",
   ip |-> Undefined,
   before |-> InitialDb]

NoRequest ==
  [route |-> "", session |-> "none",
   authorization |-> [scheme |-> "none", token |-> ""],
   at |-> 0, response |-> createApiResponse(0), steps |-> <<>>,
   user |-> NoUser, call |-> NoCall, nth |-> 0, detail |-> NoDetail]

Init ==
  /\ now = 0
  /\ rateLimitStore = [k \in FullKeys |-> NoEntry]
  /\ calls = [k \in FullKeys |-> 0]
  /\ last = NoRequest
  /\ applied = NoApplication
  /\ tables = InitialDb
  /\ pending = NoPending

\* the call count of each key after a handler ran
Counted(out) ==
  [k \in FullKeys |->
     IF ~out.store[k].present THEN 0
     ELSE IF out.call.called /\ out.call.fullKey = k
     THEN IF out.call.fresh THEN 1
          ELSE IF calls[k] > RateLimits[out.call.policy].maxRequests
          THEN calls[k]
          ELSE calls[k] + 1
     ELSE calls[k]]

\* the request just answered
Answer(route, req, out, detail) ==
  [route |-> route, session |-> req.session,
   authorization |-> req.authorization, at |-> now,
   response |-> out.response, steps |-> out.steps,
   user |-> out.user, call |-> out.call,
   nth |-> IF out.call.called THEN Counted(out)[out.call.fullKey] ELSE 0,
   detail |-> detail]

Served(route, req, out) ==
  /\ last = NoRequest
  /\ rateLimitStore' = out.store
  /\ calls' = Counted(out)
  /\ last' = Answer(route, req, out, NoDetail)
  /\ UNCHANGED <<now, applied, tables, pending>>

\* an admin handler answered and left the tables as out.tables
ServedAdmin(route, req, out) ==
  /\ last = NoRequest
  /\ LET o == out
     IN  /\ rateLimitStore' = o.store
         /\ calls' = Counted(o)
         /\ tables' = o.tables
         /\ last' = Answer(route, req, o, o.detail)
  /\ UNCHANGED <<now, applied, pending>>

\* Date.now() advances between requests
Tick ==
  /\ last = NoRequest
  /\ now + TickMs <= MaxTime
  /\ now' = now + TickMs
  /\ UNCHANGED <<rateLimitStore, calls, last, applied, tables, pending>>

\* the response has been returned to the runtime
Done ==
  /\ last # NoRequest
  /\ last' = NoRequest
  /\ UNCHANGED <<now, rateLimitStore, calls, applied, tables, pending>>

GetProfile(R) ==
  \E req \in R, sweep \in BOOLEAN :
    Served("GET /profile", req, ProfileGET(rateLimitStore, req, now, sweep))

PutProfile(R) ==
  \E req \in R, sweep \in BOOLEAN :
    Served("PUT /profile", req, ProfilePUT(rateLimitStore, req, now, sweep))

GetProjects(R) ==
  \E req \in R, sweep \in BOOLEAN :
    Served("GET /projects", req, ProjectsGET(rateLimitStore, req, now, sweep))

PostProjects(R) ==
  \E req \in R, sweep \in BOOLEAN :
    Served("POST /projects", req,
           ProjectsPOST(rateLimitStore, req, now, sweep))

GetProject(R) ==
  \E req \in R, sweep \in BOOLEAN :
    Served("GET /projects/:id", req,
           ProjectGET(rateLimitStore, req, now, sweep))

PutProject(R) ==
  \E req \in R, sweep \in BOOLEAN :
    Served("PUT /projects/:id", req,
           ProjectPUT(rateLimitStore, req, now, sweep))

DeleteProject(R) ==
  \E req \in R, sweep \in BOOLEAN :
    Served("DELETE /projects/:id", req,
           ProjectDELETE(rateLimitStore, req, now, sweep))

\* the outcomes of Math.random() < 0.1 that can differ: the sweep changes
\* nothing when no counter of the store has expired
Sweeps(store, t) ==
  IF \E k \in DOMAIN store : store[k].present /\ Expired(store[k], t)
  THEN BOOLEAN ELSE {FALSE}

PostSubscriptions(R) ==
  /\ last = NoRequest
  /\ \E req \in R, sweep \in Sweeps(rateLimitStore, now) :
    /\ Consistent(req, tables)
    /\ ServedAdmin("POST /admin/subscriptions", req,
                   SubscriptionsPOST(rateLimitStore, tables, req, now, sweep))

GetHealth ==
  \E h \in HealthChecks :
    Served("GET /health",
           [session |-> "none",
            authorization |-> [scheme |-> "none", token |-> ""],
            health |-> h],
           HealthGET(rateLimitStore,
                     [session |-> "none",
                      authorization |-> [scheme |-> "none", token |-> ""],
                      health |-> h]))

DeleteUser(R) ==
  /\ last = NoRequest
  /\ \E req \in R, sweep \in Sweeps(rateLimitStore, now) :
    /\ Consistent(req, tables)
    /\ ServedAdmin("DELETE /admin/users/:id", req,
                   UsersDELETE(rateLimitStore, tables, req, now, sweep))

CreateUser(R) ==
  /\ last = NoRequest
  /\ \E req \in R, sweep \in Sweeps(rateLimitStore, now) :
    /\ Consistent(req, tables)
    /\ ServedAdmin("POST /admin/users", req,
                   UsersPOST(rateLimitStore, tables, req, now, sweep))

\* The rate limiter over time, under the requests of callers with a session.
Next ==
  \/ Tick
  \/ Done
  \/ GetProfile(Callers)
  \/ PutProfile(Callers)
  \/ GetProjects(Callers)
  \/ PostProjects(Callers)
  \/ GetProject(Callers)
  \/ PutProject(Callers)
  \/ DeleteProject(Callers)

Spec == Init /\ [][Next]_vars

\* The pipeline under every request, within the windows opened at one time.
NextPipeline ==
  \/ Done
  \/ GetHealth
  \/ GetProfile(Requests)
  \/ PutProfile(Requests)
  \/ GetProjects(Requests)
  \/ PostProjects(Requests)
  \/ GetProject(Requests)
  \/ PutProject(Requests)
  \/ DeleteProject(Requests)

InitPipeline ==
  /\ now \in {0, TickMs}
  /\ rateLimitStore = [k \in FullKeys |-> NoEntry]
  /\ calls = [k \in FullKeys |-> 0]
  /\ last = NoRequest
  /\ applied = NoApplication
  /\ tables = InitialDb
  /\ pending = NoPending

SpecPipeline == InitPipeline /\ [][NextPipeline]_vars

\* The admin handlers under every admin request.
NextAdmin ==
  \/ Done
  \/ PostSubscriptions(AdminRequests)
  \/ DeleteUser(UserDeleteRequests)
  \/ CreateUser(UserCreateRequests)

\* the roles the stored profiles start with: any stored string for the
\* first caller, an admin role for the second, and a third user who may not
\* exist
InitAdmin ==
  /\ now = 0
  /\ pending = NoPending
  /\ rateLimitStore = [k \in FullKeys |-> NoEntry]
  /\ calls = [k \in FullKeys |-> 0]
  /\ last = NoRequest
  /\ applied = NoApplication
  /\ \E r1 \in UserRoles \cup {"", "owner"}, r2 \in {"admin", "super_admin"},
        r3 \in {"user", Absent} :
       tables = [InitialDb EXCEPT
                   !.profiles = [u \in UserIds |->
                                   IF u = "u1" THEN r1
                                   ELSE IF u = "u2" THEN r2 ELSE r3]]

SpecAdmin == InitAdmin /\ [][NextAdmin]_vars

(***************************************************************************)
(* The functions of lib/permissions, lib/api/utils and the two client      *)
(* address extractions, each applied to every input of a bounded set.      *)
(***************************************************************************)
Apply(op, args, value) ==
  /\ applied.op = NoApplication.op
  /\ applied' = [op |-> op, args |-> args, value |-> value]
  /\ UNCHANGED <<now, rateLimitStore, calls, last, tables, pending>>

\* the function has returned to its caller
Return ==
  /\ applied.op # NoApplication.op
  /\ applied' = NoApplication
  /\ UNCHANGED <<now, rateLimitStore, calls, last, tables, pending>>

\* the lists of at most MaxRequired permissions
RequiredPermissions ==
  UNION {[1..n -> Permissions] : n \in 0..MaxRequired}

\* the strings a caller can pass for a role: the three roles, the empty
\* string, a string that names nothing and one that names an inherited
\* property
RoleValues == UserRoles \cup {"", "owner", "constructor"}

HasPermission ==
  /\ applied.op = NoApplication.op
  /\ \E role \in RoleValues, permission \in Permissions :
       Apply("hasPermission", <<role, permission>>,
             hasPermission(role, permission))

\* isAdmin, isSuperAdmin and getRolePermissions of one role value
RoleChecks ==
  /\ applied.op = NoApplication.op
  /\ \E role \in RoleValues :
       Apply("roleChecks", <<role>>,
             [isAdmin |-> isAdmin(role), isSuperAdmin |-> isSuperAdmin(role),
              permissions |-> getRolePermissions(role)])

CheckUserPermission ==
  /\ applied.op = NoApplication.op
  /\ \E lookup \in ProfileLookups, permission \in Permissions :
       Apply("checkUserPermission", <<lookup, permission>>,
             checkUserPermission(lookup, permission))

GetUserRole ==
  /\ applied.op = NoApplication.op
  /\ \E lookup \in ProfileLookups :
       Apply("getUserRole", <<lookup>>, getUserRole(lookup))

PermissionGuard ==
  /\ applied.op = NoApplication.op
  /\ \E required \in RequiredPermissions, lookup \in ProfileLookups :
       Apply("createPermissionGuard", <<required, lookup>>,
             createPermissionGuard(required, lookup))

GetStatusFromErrorCode ==
  /\ applied.op = NoApplication.op
  /\ \E code \in ErrorCodes :
       Apply("getStatusFromErrorCode", <<code>>, getStatusFromErrorCode(code))

\* the audit recorder and the rate limiter read the headers of one request
ClientIp ==
  /\ applied.op = NoApplication.op
  /\ \E forwarded \in ForwardedFors, realIp \in RealIps :
       Apply("clientIp", <<forwarded, realIp>>,
             [audit   |-> getClientIp(forwarded, realIp),
              limiter |-> getRateLimitKeyForIp(forwarded, realIp)])

NextFunctions ==
  \/ Return
  \/ HasPermission
  \/ RoleChecks
  \/ CheckUserPermission
  \/ GetUserRole
  \/ PermissionGuard
  \/ GetStatusFromErrorCode
  \/ ClientIp

SpecFunctions == Init /\ [][NextFunctions]_vars

(***************************************************************************)
(* The profile handlers under concurrent requests.  The runtime runs one   *)
(* handler at a time and switches to another only where a handler awaits:  *)
(* a request is received and awaits verifyApiAuth; when the session         *)
(* lookup resolves the handler runs up to the result of checkRateLimit,    *)
(* and the rest of it touches no state the requests share.                 *)
(***************************************************************************)
checkRateLimitSuspendsAfterRead == TRUE

\* checkRateLimit awaits nothing between rateLimitStore.get(fullKey) and
\* entry.count++
checkRateLimitSuspends == FALSE

InterleavedRoutes == {"GET /profile", "PUT /profile"}

PolicyOf(route) == IF route = "GET /profile" THEN "read" ELSE "write"

Handle(route, store, req, t, sweep) ==
  IF route = "GET /profile" THEN ProfileGET(store, req, t, sweep)
  ELSE ProfilePUT(store, req, t, sweep)

\* the request a slot is serving
RequestOf(slot) ==
  [session |-> slot.session,
   authorization |-> [scheme |-> "none", token |-> ""],
   body |-> "valid", db |-> "ok", hasId |-> TRUE]

\* a request arrives; its handler runs up to `await verifyApiAuth(cookies)`
Receive(r) ==
  /\ pending[r].pc = "idle"
  /\ \E route \in InterleavedRoutes, req \in Callers :
       pending' = [pending EXCEPT ![r] =
                     [Idle EXCEPT !.pc = "verifyApiAuth", !.route = route,
                                  !.session = req.session]]
  /\ UNCHANGED <<now, rateLimitStore, calls, last, applied, tables>>

\* the session lookup resolved: the handler runs from there to the result of
\* checkRateLimit, which it takes from the Map as it is now
CheckRateLimit(r) ==
  /\ pending[r].pc \in {"verifyApiAuth", "checkRateLimit"}
  /\ \E sweep \in BOOLEAN :
       LET slot    == pending[r]
           key     == FullKey(getRateLimitKeyForUser(slot.session),
                              RateLimits[PolicyOf(slot.route)])
           resumed == slot.pc = "checkRateLimit"
           store   == IF resumed
                      THEN [rateLimitStore EXCEPT ![key] = slot.seen]
                      ELSE rateLimitStore
           out     == Handle(slot.route, store, RequestOf(slot), now, sweep)
       IN  IF checkRateLimitSuspends /\ ~resumed
           THEN /\ pending' = [pending EXCEPT ![r] =
                                 [slot EXCEPT !.pc = "checkRateLimit",
                                              !.fullKey = key,
                                              !.seen = rateLimitStore[key]]]
                /\ UNCHANGED rateLimitStore
           ELSE /\ rateLimitStore' =
                     IF resumed
                     THEN [rateLimitStore EXCEPT ![key] = out.store[key]]
                     ELSE out.store
                /\ pending' =
                     [pending EXCEPT ![r] =
                        [slot EXCEPT
                           !.pc = "answered", !.fullKey = key,
                           !.seen = NoEntry,
                           !.allowed = out.call.allowed,
                           !.window = out.store[key].resetAt,
                           !.status = out.response.status,
                           !.overlapped =
                             \E q \in InFlight \ {r} :
                               pending[q].pc = "verifyApiAuth"]]
  /\ UNCHANGED <<now, calls, last, applied, tables>>

NextInterleaved ==
  \/ Tick
  \/ \E r \in InFlight : Receive(r)
  \/ \E r \in InFlight : CheckRateLimit(r)

SpecInterleaved == Init /\ [][NextInterleaved]_vars

(***************************************************************************)
(* DELETE and PATCH /admin/users/:id under concurrent requests.  A handler *)
(* is suspended at each call it awaits; the steps below are the stretches  *)
(* between two awaits that read or write the rate-limit Map or a table.    *)
(* The callers hold a session, send a JSON body, and the audit insert      *)
(* succeeds.                                                               *)
(***************************************************************************)
UserMethods == {"DELETE", "PATCH"}

\* body.role of a PATCH: absent (""), a role, or a string that is no role
NewRoles == {"", "user", "admin", "super_admin", "owner"}

NoWrite == [done |-> FALSE, from |-> "", to |-> ""]

IdleUser ==
  [pc |-> "idle", method |-> "", caller |-> NoUser, target |-> "",
   newRole |-> "", countFails |-> FALSE, writeFails |-> FALSE, role |-> "",
   targetRole |-> "", status |-> 0, wrote |-> NoWrite]

\* every method, caller, target and new role with a data store that answers,
\* and the failures of the count query and of the write
UserRequests ==
  LET With(method, caller, target, newRole, countFails, writeFails) ==
        [IdleUser EXCEPT !.method = method, !.caller = caller,
                         !.target = target, !.newRole = newRole,
                         !.countFails = countFails,
                         !.writeFails = writeFails]
  IN  {With("DELETE", c, t, "", FALSE, FALSE) : c \in Users, t \in UserIds}
      \cup {With("PATCH", c, t, n, FALSE, FALSE) :
              c \in Users, t \in UserIds, n \in NewRoles}
      \cup {With(m, "u1", "u2", "user", cf, wf) :
              m \in UserMethods, cf \in BOOLEAN, wf \in BOOLEAN}

\* each caller connects from an address of its own
HeadersOf(caller) ==
  [forwardedFor |-> IF caller = "u1" THEN <<"ip1">> ELSE <<"ip2">>,
   realIp |-> "", audit |-> "ok"]

\* each caller has at most one request in flight, on a connection of its own
Connections == [r1 |-> "u1", r2 |-> "u2"]

\* the handler returned a response of the status
Respond(slot, status) == [IdleUser EXCEPT !.pc = "answered", !.status = status]

\* the request arrives and rateLimit(request, 'write') checks it
ReceiveUsers(r) ==
  /\ r \in DOMAIN Connections
  /\ pending[r].pc = "idle"
  /\ \E req \in {q \in UserRequests : q.caller = Connections[r]},
        sweep \in Sweeps(rateLimitStore, now) :
       LET rl == rateLimit(rateLimitStore, HeadersOf(req.caller), "write",
                           now, sweep)
       IN  /\ rateLimitStore' = rl.store
           /\ pending' = [pending EXCEPT ![r] =
                            IF rl.allowed
                            THEN [req EXCEPT !.pc = "getUserRole"]
                            ELSE Respond(req, 429)]
  /\ UNCHANGED <<now, calls, last, applied, tables>>

\* authenticateRequest resolved and getUserRole read the caller's profile
ResolveRole(r) ==
  /\ pending[r].pc = "getUserRole"
  /\ LET slot == pending[r]
         role == getUserRole(Lookup(tables, slot.caller, FALSE))
         seen == [slot EXCEPT !.role = role]
     IN  pending' = [pending EXCEPT ![r] =
           IF slot.method = "DELETE"
           THEN IF NotSuperAdmin(role) THEN Respond(seen, 403)
                ELSE IF slot.target = slot.caller THEN Respond(seen, 400)
                ELSE [seen EXCEPT !.pc = "profiles.select"]
           ELSE IF ~isAdmin(role) THEN Respond(seen, 403)
                ELSE [seen EXCEPT !.pc = "profiles.select"]]
  /\ UNCHANGED <<now, rateLimitStore, calls, last, applied, tables>>

\* the select of the target's role returned
SelectTarget(r) ==
  /\ pending[r].pc = "profiles.select"
  /\ LET slot       == pending[r]
         targetUser == Lookup(tables, slot.target, FALSE)
         seen       == [slot EXCEPT !.targetRole = targetUser.role]
         guarded    == IF slot.method = "DELETE"
                       THEN targetUser.role = "super_admin"
                       ELSE /\ targetUser.role = "super_admin"
                            /\ slot.newRole # "super_admin"
     IN  pending' = [pending EXCEPT ![r] =
           IF targetUser.error THEN Respond(slot, 404)
           ELSE IF /\ slot.method = "PATCH"
                   /\ targetUser.role \in {"admin", "super_admin"}
                   /\ slot.role # "super_admin"
           THEN Respond(seen, 403)
           ELSE IF guarded THEN [seen EXCEPT !.pc = "profiles.count"]
           ELSE [seen EXCEPT !.pc = "write"]]
  /\ UNCHANGED <<now, rateLimitStore, calls, last, applied, tables>>

\* the count of the super_admin profiles returned; count is null when the
\* query fails
CountSuperAdmins(r) ==
  /\ pending[r].pc = "profiles.count"
  /\ LET slot  == pending[r]
         count == IF slot.countFails THEN Null
                  ELSE Cardinality({u \in UserIds :
                                      tables.profiles[u] = "super_admin"})
     IN  pending' = [pending EXCEPT ![r] =
           IF count = 1 THEN Respond(slot, 400)
           ELSE [slot EXCEPT !.pc = "write"]]
  /\ UNCHANGED <<now, rateLimitStore, calls, last, applied, tables>>

\* auth.admin.deleteUser, or the update of the profile, returned; either
\* reports an error when it fails and when the user is gone
WriteUser(r) ==
  /\ pending[r].pc = "write"
  /\ LET slot    == pending[r]
         found   == tables.profiles[slot.target]
         missing == found \in {Absent, Deleted}
         to      == IF slot.method = "DELETE" THEN Deleted
                    ELSE IF slot.newRole \in {"user", "admin", "super_admin"}
                    THEN slot.newRole
                    ELSE found
         written == [tables EXCEPT !.profiles[slot.target] = to]
     IN  IF slot.writeFails \/ missing
         THEN /\ pending' = [pending EXCEPT ![r] = Respond(slot, 500)]
              /\ UNCHANGED tables
         ELSE /\ pending' = [pending EXCEPT ![r] =
                   [slot EXCEPT !.pc = "audit",
                                !.wrote = [done |-> TRUE, from |-> found,
                                           to |-> to]]]
              /\ tables' =
                   IF slot.method = "DELETE"
                   THEN [written EXCEPT !.audit_logs =
                           {IF row.user_id = slot.target
                            THEN [row EXCEPT !.user_id = ""] ELSE row :
                              row \in tables.audit_logs}]
                   ELSE written
  /\ UNCHANGED <<now, rateLimitStore, calls, last, applied>>

\* logAdminAction returned and the handler answers 200
AuditUser(r) ==
  /\ pending[r].pc = "audit"
  /\ LET slot  == pending[r]
         entry == logAdminAction(IF slot.method = "DELETE" THEN "user_deleted"
                                 ELSE "user_modified",
                                 slot.caller, "user", slot.target,
                                 HeadersOf(slot.caller), tables)
     IN  /\ tables' = entry.tables
         /\ pending' = [pending EXCEPT ![r] = Respond(slot, 200)]
  /\ UNCHANGED <<now, rateLimitStore, calls, last, applied>>

\* the response has been returned to the runtime
FinishUser(r) ==
  /\ pending[r].pc = "answered"
  /\ pending' = [pending EXCEPT ![r] = IdleUser]
  /\ UNCHANGED <<now, rateLimitStore, calls, last, applied, tables>>

NextUsers ==
  \/ \E r \in InFlight : ReceiveUsers(r)
  \/ \E r \in InFlight : ResolveRole(r)
  \/ \E r \in InFlight : SelectTarget(r)
  \/ \E r \in InFlight : CountSuperAdmins(r)
  \/ \E r \in InFlight : WriteUser(r)
  \/ \E r \in InFlight : AuditUser(r)
  \/ \E r \in InFlight : FinishUser(r)

\* one super admin, a second administrator and a user
InitUsers ==
  /\ now = 0
  /\ rateLimitStore = [k \in FullKeys |-> NoEntry]
  /\ calls = [k \in FullKeys |-> 0]
  /\ last = NoRequest
  /\ applied = NoApplication
  /\ pending = [r \in InFlight |-> IdleUser]
  /\ \E r2 \in {"admin", "super_admin"} :
       tables = [InitialDb EXCEPT !.profiles["u2"] = r2]

SpecUsers == InitUsers /\ [][NextUsers]_vars

(***************************************************************************)
(* Properties                                                              *)
(***************************************************************************)
Limit(call) == RateLimits[call.policy].maxRequests

Window(call) == RateLimits[call.policy].windowMs

Ran(step) == \E i \in DOMAIN last.steps : last.steps[i] = step

RateLimited == last # NoRequest /\ last.call.called

\* C1: among the checkRateLimit calls made on one counter, every call up to
\* the maxRequests-th is allowed, the maxRequests-th reports remaining = 0,
\* and the (maxRequests+1)-th is rejected with RATE_LIMIT_EXCEEDED (and
\* answered 429).
C1_LimitWithinWindow ==
  RateLimited =>
    /\ last.nth >= 1
    /\ last.nth <= Limit(last.call) => last.call.allowed
    /\ last.nth = Limit(last.call) => last.call.info.remaining = 0
    /\ last.nth = Limit(last.call) + 1 =>
         /\ ~last.call.allowed
         /\ last.call.code = "RATE_LIMIT_EXCEEDED"
         /\ last.response.code = "RATE_LIMIT_EXCEEDED"
         /\ last.response.status = 429

C1_Witness ==
  /\ RateLimited
  /\ last.call.policy = "read"
  /\ last.nth = ReadMaxRequests + 1
  /\ ~last.call.allowed

\* C2 as stated: a call that finds no counter, or a counter with
\* now >= resetAt, opens a fresh window, leaves count = 1 and is allowed.
C2_ResetAtOrAfterResetAt ==
  (RateLimited /\ (~last.call.before.present
                     \/ last.at >= last.call.before.resetAt)) =>
    /\ last.call.allowed
    /\ last.call.after.count = 1
    /\ last.call.after.resetAt = last.at + Window(last.call)

\* C2, amended: a call that finds no counter, or a counter with
\* now > resetAt, opens a fresh window (resetAt = now + windowMs), leaves
\* count = 1 and is allowed; a call at now <= resetAt, the instant
\* now = resetAt included, stays in the counter's window.
C2_ResetAfterResetAt ==
  RateLimited =>
    IF ~last.call.before.present \/ last.at > last.call.before.resetAt
    THEN /\ last.call.allowed
         /\ last.call.after =
              [present |-> TRUE, count |-> 1,
               resetAt |-> last.at + Window(last.call)]
    ELSE /\ last.call.after.resetAt = last.call.before.resetAt
         /\ last.call.after.count >= last.call.before.count

C2_Witness ==
  /\ RateLimited
  /\ last.call.before.present
  /\ last.call.before.count >= Limit(last.call)
  /\ last.at > last.call.before.resetAt
  /\ last.call.allowed
  /\ last.call.after.count = 1

\* C3: no counter of the store exceeds the maxRequests of its policy, and a
\* checkRateLimit result reports remaining = max(0, limit - count) for the
\* count the call leaves, so 0 <= remaining <= limit.
C3_CountAndRemaining ==
  /\ \A k \in FullKeys :
       rateLimitStore[k].present =>
         rateLimitStore[k].count <= RateLimits[k[1]].maxRequests
  /\ RateLimited =>
       /\ last.call.info.limit = Limit(last.call)
       /\ last.call.info.remaining =
            Max(0, Limit(last.call) - last.call.after.count)
       /\ last.call.info.remaining >= 0
       /\ last.call.info.remaining <= Limit(last.call)

C3_Witness ==
  /\ RateLimited
  /\ last.call.allowed
  /\ last.call.info.remaining = 1
  /\ \E k \in FullKeys :
       /\ k # last.call.fullKey
       /\ rateLimitStore[k].present
       /\ rateLimitStore[k].count = RateLimits[k[1]].maxRequests

\* C4: a call that finds count >= maxRequests in a window that has not
\* elapsed is rejected; a rejected call leaves the counter's count and
\* resetAt as they were; an allowed call adds exactly one to the count (of
\* the fresh counter, when it opened one).
C4_RejectedLeavesCounter ==
  RateLimited =>
    LET live == last.call.before.present
                  /\ last.at <= last.call.before.resetAt
    IN  /\ (live /\ last.call.before.count >= Limit(last.call)) =>
             ~last.call.allowed
        /\ ~last.call.allowed => last.call.after = last.call.before
        /\ last.call.allowed =>
             /\ last.call.after.count =
                  (IF live THEN last.call.before.count ELSE 0) + 1
             /\ live => last.call.after.resetAt = last.call.before.resetAt

C4_Witness ==
  /\ RateLimited
  /\ ~last.call.allowed
  /\ last.call.before.count >= Limit(last.call)
  /\ last.call.after = last.call.before
  /\ last.at < last.call.before.resetAt

Answered == last # NoRequest

BearerMessages ==
  {"Bearer token required", "Invalid or expired token",
   "Token verification failed"}

\* C5: every response carries the three rate-limit headers, with
\* remaining <= limit and a reset not earlier than the time of the response.
C5_HeadersOnEveryResponse ==
  Answered =>
    /\ last.response.headers.present
    /\ last.response.headers.remaining <= last.response.headers.limit
    /\ last.response.headers.reset >= last.at \div MsPerSecond

\* C6: the rate-limit check is the first step of every handler, so a request
\* that is not authenticated has still been counted.
C6_RateLimitFirst ==
  Answered =>
    /\ last.steps # <<>> => last.steps[1] = "checkRateLimit"
    /\ last.response.status = 401 => last.call.called

\* C8: a request with a session is served with the session's identity and
\* neither verifyApiBearerAuth nor the provider's token check runs, whatever
\* the Authorization header, and no bearer error is reported; a request with
\* no session and a valid bearer token is served with the token's identity,
\* after verifyApiAuth.
C8_SessionThenBearer ==
  Answered =>
    /\ last.session \in Users =>
         /\ last.user = last.session
         /\ ~Ran("verifyApiBearerAuth")
         /\ ~Ran("auth.getUser")
         /\ last.response.status # 401
         /\ last.response.message.text \notin BearerMessages
    /\ (last.session \notin Users /\ last.authorization.scheme = "Bearer"
          /\ last.authorization.token \in Users) =>
         /\ last.user = last.authorization.token
         /\ last.response.status # 401
         /\ SubSeq(last.steps, 1, 3) =
              <<"verifyApiAuth", "verifyApiBearerAuth", "auth.getUser">>

C8_Witness ==
  /\ Answered
  /\ last.session = "u1"
  /\ last.authorization = [scheme |-> "Bearer", token |-> "expired"]
  /\ last.user = "u1"
  /\ last.response.status = 200

\* C9: a 401 reports the code and message of the session path: INVALID_TOKEN
\* when the session check threw, UNAUTHORIZED when there is no session;
\* never a message of the bearer path.
C9_SessionErrorReported ==
  (Answered /\ last.response.status = 401) =>
    /\ last.session \notin Users
    /\ last.session = "throws" =>
         /\ last.response.code = "INVALID_TOKEN"
         /\ last.response.message.text = "Invalid authentication"
    /\ last.session # "throws" =>
         /\ last.response.code = "UNAUTHORIZED"
         /\ last.response.message.text = "Authentication required"
    /\ last.response.message.text \notin BearerMessages

C9_Witness ==
  /\ Answered
  /\ last.response.status = 401
  /\ last.session = "none"
  /\ last.authorization = [scheme |-> "Bearer", token |-> "expired"]
  /\ Ran("auth.getUser")
  /\ last.response.code = "UNAUTHORIZED"

\* C10: a request with neither a session cookie nor an Authorization header
\* is answered 401 UNAUTHORIZED, with the rate-limit headers.
C10_AnonymousGets401WithHeaders ==
  (Answered /\ last.session = "none" /\ last.authorization.scheme = "none") =>
    /\ last.response.status = 401
    /\ last.response.code = "UNAUTHORIZED"
    /\ last.response.headers.present

\* the steps of a handler that read or write the data store or the payment
\* platform, and the audit recorder
HandlerSteps ==
  {"handler", "subscriptions.select", "subscriptions.update",
   "stripe.subscriptions.update", "stripe.invoices.list",
   "stripe.refunds.create", "audit"}

\* C7: a request answered 429, 401, 403 or 400 has run no data-store or
\* payment step of its handler and has not called the audit recorder.
C7_NoHandlerStepAfterFailure ==
  (Answered /\ last.response.status \in {429, 401, 403, 400}) =>
    \A i \in DOMAIN last.steps : last.steps[i] \notin HandlerSteps

\* C11: a permission granted to user is granted to admin, one granted to
\* admin is granted to super_admin, and super_admin is granted every
\* permission of the enumeration.
C11_CumulativePermissions ==
  applied.op = "hasPermission" =>
    LET role == applied.args[1]
        p    == applied.args[2]
    IN  /\ (role = UserRole.USER /\ applied.value.value) =>
             /\ hasPermission(UserRole.ADMIN, p).value
             /\ hasPermission(UserRole.SUPER_ADMIN, p).value
        /\ (role = UserRole.ADMIN /\ applied.value.value) =>
             hasPermission(UserRole.SUPER_ADMIN, p).value
        /\ role = UserRole.SUPER_ADMIN => applied.value.value

C11_Witness ==
  /\ applied.op = "hasPermission"
  /\ applied.args = <<UserRole.USER, Permission.DELETE_OWN_ACCOUNT>>
  /\ applied.value.value

C15_StatusOfErrorCode ==
  applied.op = "getStatusFromErrorCode" =>
    LET code == applied.args[1]
    IN  applied.value =
          CASE code \in {"UNAUTHORIZED", "INVALID_TOKEN", "TOKEN_EXPIRED"} -> 401
            [] code = "FORBIDDEN" -> 403
            [] code = "NOT_FOUND" -> 404
            [] code = "ALREADY_EXISTS" -> 409
            [] code \in {"VALIDATION_ERROR", "INVALID_INPUT", "MISSING_FIELD"}
                 -> 400
            [] code = "RATE_LIMIT_EXCEEDED" -> 429
            [] OTHER -> 500

\* C17: for every X-Forwarded-For and X-Real-IP, the address the rate
\* limiter derives is the address the audit recorder attributes, and is
\* absent when the recorder attributes none.
C17_SameClientIp ==
  applied.op = "clientIp" =>
    applied.value.limiter =
      IF applied.value.audit.defined THEN <<applied.value.audit.value>>
      ELSE <<>>

\* C17, amended: when X-Forwarded-For or X-Real-IP is a non-empty string,
\* both derive the same address, the trimmed first entry of X-Forwarded-For
\* or else X-Real-IP; when neither is, the audit recorder attributes no
\* address and the rate limiter derives the key "anonymous".
C17_SameClientIpWhenNamed ==
  applied.op = "clientIp" =>
    LET forwarded == applied.args[1]
        realIp    == applied.args[2]
        audit     == applied.value.audit
        limiter   == applied.value.limiter
    IN  IF Truthy(forwarded) \/ realIp # ""
        THEN /\ audit.defined
             /\ limiter = <<audit.value>>
             /\ audit.value = IF Truthy(forwarded) THEN Trim(forwarded[1])
                              ELSE realIp
        ELSE /\ ~audit.defined
             /\ limiter = <<"anonymous">>

C17_Witness ==
  /\ applied.op = "clientIp"
  /\ applied.args = <<(<<"ip2 ", "ip1">>), "ip1">>
  /\ applied.value.audit = Defined("ip2")
  /\ applied.value.limiter = <<"ip2">>

\* C20: the guard's missingPermissions are the required permissions the
\* resolved role is not granted, allowed holds exactly when there is none,
\* allowed equals hasAllPermissions, and an empty requirement is allowed.
C20_GuardMissingPermissions ==
  applied.op = "createPermissionGuard" =>
    LET required == applied.args[1]
        role     == getUserRole(applied.args[2])
        guard    == applied.value
        missing  == {guard.missingPermissions[i] :
                       i \in DOMAIN guard.missingPermissions}
    IN  /\ guard.role = role
        /\ missing = {p \in {required[i] : i \in DOMAIN required} :
                        ~hasPermission(role, p).value}
        /\ guard.allowed <=> missing = {}
        /\ guard.allowed <=> hasAllPermissions(role, required)
        /\ required = <<>> => guard.allowed

C20_Witness ==
  /\ applied.op = "createPermissionGuard"
  /\ applied.args[1] =
       <<Permission.VIEW_ALL_USERS, Permission.DELETE_USERS>>
  /\ applied.args[2] = [error |-> FALSE, role |-> "admin"]
  /\ applied.value.missingPermissions = <<Permission.DELETE_USERS>>
  /\ ~applied.value.allowed

\* C18: every request is counted under a key: the key of the caller's id
\* when it is authenticated, and otherwise the key of a client address or
\* the fallback key.
C18_KeyOfRequest ==
  Answered =>
    /\ last.call.called
    /\ IF last.user # NoUser
       THEN last.call.fullKey[2] = getRateLimitKeyForUser(last.user)
       ELSE last.call.fullKey[2] \in {<<a>> : a \in Ips \cup {"anonymous"}}

\* the method of a route
Method(route) ==
  CASE route \in {"GET /profile", "GET /projects", "GET /projects/:id",
                  "GET /health"} -> "GET"
    [] route \in {"PUT /profile", "PUT /projects/:id"} -> "PUT"
    [] route \in {"POST /projects", "POST /admin/subscriptions",
                  "POST /admin/users"} -> "POST"
    [] route \in {"DELETE /projects/:id", "DELETE /admin/users/:id"}
         -> "DELETE"

\* C19: the source has the four policies api (100 per 15 minutes), auth (5
\* per 15 minutes), read (60 per minute) and write (10 per minute); every
\* endpoint that serves a request has checked it against the counter of its
\* class: read for a GET handler, write for a POST, PUT or DELETE handler.
C19_PolicyOfOperationClass ==
  /\ DOMAIN RateLimitsSource = {"api", "auth", "read", "write"}
  /\ RateLimitsSource.api.maxRequests = 100
  /\ RateLimitsSource.api.windowMs = 900000
  /\ RateLimitsSource.auth.maxRequests = 5
  /\ RateLimitsSource.auth.windowMs = 900000
  /\ RateLimitsSource.read.maxRequests = 60
  /\ RateLimitsSource.read.windowMs = 60000
  /\ RateLimitsSource.write.maxRequests = 10
  /\ RateLimitsSource.write.windowMs = 60000
  /\ (Answered /\ last.response.status \notin {400, 401}) =>
       LET class == IF Method(last.route) = "GET" THEN "read" ELSE "write"
       IN  /\ last.call.called
           /\ last.call.fullKey[1] = RateLimitsSource[class].keyPrefix
           /\ last.call.info.limit = RateLimits[class].maxRequests

\* the audit rows of a deleted user
UserDeleted(data) ==
  {row \in data.audit_logs : row.action = <<"admin", "user_deleted">>}

\* C13: DELETE /admin/users/:id by an authenticated caller whose resolved
\* role is admin or user is answered 403 FORBIDDEN, deletes nothing and
\* records no audit row; a user_deleted row is recorded only by a request
\* whose deleteUser call succeeded, and names a user that is deleted.
C13_OnlySuperAdminDeletes ==
  /\ \A row \in UserDeleted(tables) :
       tables.profiles[row.resource_id] = Deleted
  /\ (Answered /\ last.route = "DELETE /admin/users/:id") =>
       /\ (last.user # NoUser /\ last.detail.role \in {"admin", "user"}) =>
            /\ last.response.status = 403
            /\ last.response.code = "FORBIDDEN"
            /\ tables = last.detail.before
            /\ ~Ran("auth.admin.deleteUser")
            /\ ~Ran("audit")
       /\ UserDeleted(tables) # UserDeleted(last.detail.before) =>
            /\ last.detail.role = "super_admin"
            /\ Ran("auth.admin.deleteUser")
            /\ last.response.status = 200
            /\ last.detail.before.profiles[last.detail.target]
                 \notin {Absent, Deleted}
            /\ tables.profiles[last.detail.target] = Deleted

C13_Witness ==
  /\ Answered
  /\ last.route = "DELETE /admin/users/:id"
  /\ last.detail.role = "admin"
  /\ last.detail.target = "u3"
  /\ last.response.status = 403
  /\ tables.profiles["u3"] = "user"

\* C14: a refund request and a create-user request by an authenticated
\* caller whose resolved role is admin are answered 403, whatever the
\* subscription, and create no refund and no user.
C14_OnlySuperAdminRefundsAndCreates ==
  (/\ Answered
   /\ last.user # NoUser
   /\ last.detail.role = "admin"
   /\ \/ last.route = "POST /admin/users"
      \/ /\ last.route = "POST /admin/subscriptions"
         /\ last.detail.operation = "refund"
         /\ last.detail.target = SubscriptionId) =>
    /\ last.response.status = 403
    /\ tables = last.detail.before

\* C16: a request that called the audit recorder is answered with the
\* success response, whether the insert succeeded, returned an error or
\* threw; a failed insert leaves audit_logs without the row.
C16_AuditFailureKeepsResponse ==
  (Answered /\ Ran("audit")) =>
    /\ last.response = response_createApiResponse(200)
    /\ last.detail.audit # "ok" =>
         Cardinality(tables.audit_logs)
           = Cardinality(last.detail.before.audit_logs)

C16_Witness ==
  /\ Answered
  /\ last.route = "DELETE /admin/users/:id"
  /\ Ran("audit")
  /\ last.detail.audit = "throws"
  /\ last.response.status = 200
  /\ tables.profiles[last.detail.target] = Deleted

\* C21: a role value other than user, admin and super_admin holds no
\* permission: hasPermission returns false for every permission,
\* getRolePermissions returns the empty list, isAdmin and isSuperAdmin return
\* false; isAdmin holds exactly for admin and super_admin, isSuperAdmin
\* exactly for super_admin.
C21_UnknownRoleHoldsNothing ==
  /\ applied.op = "hasPermission" =>
        (applied.args[1] \notin {"user", "admin", "super_admin"} =>
           /\ ~applied.value.threw
           /\ ~applied.value.value)
  /\ applied.op = "roleChecks" =>
        LET role == applied.args[1]
        IN  /\ applied.value.isAdmin <=> role \in {"admin", "super_admin"}
            /\ applied.value.isSuperAdmin <=> role = "super_admin"
            /\ role \notin {"user", "admin", "super_admin"} =>
                  applied.value.permissions =
                    [type |-> "array", items |-> <<>>]

\* C22: checkUserPermission returns the role getUserRole resolves,
\* hasPermission equal to hasPermission(role, p), and missingPermission equal
\* to p exactly when hasPermission is false, undefined exactly when true.
C22_CheckUserPermission ==
  applied.op = "checkUserPermission" =>
    LET lookup == applied.args[1]
        p      == applied.args[2]
        result == applied.value
    IN  /\ result.role = getUserRole(lookup)
        /\ result.hasPermission = hasPermission(result.role, p).value
        /\ ~hasPermission(result.role, p).threw
        /\ result.missingPermission = Defined(p) <=> ~result.hasPermission
        /\ result.missingPermission = Undefined <=> result.hasPermission

C22_Witness ==
  /\ applied.op = "checkUserPermission"
  /\ applied.args =
       <<[error |-> FALSE, role |-> "admin"], Permission.DELETE_USERS>>
  /\ ~applied.value.hasPermission
  /\ applied.value.role = "admin"
  /\ applied.value.missingPermission = Defined(Permission.DELETE_USERS)

\* the data store failed to answer the role lookup of the latest request: the
\* lookup reported an error though the caller's profile row exists
RoleLookupFailed ==
  /\ last.user # NoUser
  /\ Ran("getUserRole")
  /\ last.detail.profile.error
  /\ last.detail.before.profiles[last.user] \notin {Absent, Deleted}

\* C23: a failure of an external call made while serving a protected request
\* is answered with a shaped error: 401 when the identity provider fails and
\* the caller is not identified, 500 with the handler's generic message when
\* the role lookup or the payment call fails.
C23_ExternalFailureIsInternalError ==
  last.route = "POST /admin/subscriptions" =>
    /\ (last.session = "throws" /\ last.user = NoUser
          /\ Ran("authenticateRequest")) =>
          last.response.status = 401
    /\ RoleLookupFailed =>
          /\ last.response.status = 500
          /\ last.response.message =
               Msg("Failed to process subscription action")
    /\ (Ran("stripe.subscriptions.update") /\ ~Ran("subscriptions.update")) =>
          /\ last.response.status = 500
          /\ last.response.message =
               Msg("Failed to process subscription action")

\* the accounts that exist in data and did not before the latest request
Created(data) ==
  {u \in UserIds : /\ last.detail.before.profiles[u] = Absent
                   /\ data.profiles[u] \notin {Absent, Deleted}}

\* C30: after a POST /admin/users that ends in an error no account created
\* by it remains, and an account that a request created carries the role the
\* request asked for, user or admin.
C30_NoAccountAfterFailedCreate ==
  last.route = "POST /admin/users" =>
    /\ last.response.status >= 400 => Created(tables) = {}
    /\ \A u \in Created(tables) :
         /\ tables.profiles[u] = last.detail.requested
         /\ last.detail.requested \in {"user", "admin"}

\* C27: a check made after the window of its counter has elapsed is allowed,
\* whatever the counter held; a check made inside the window, allowed or
\* rejected, leaves the counter's resetAt as it was; and no counter of the
\* store resets later than one window from now.
C27_NoPermanentLockout ==
  /\ \A k \in FullKeys :
       rateLimitStore[k].present =>
         rateLimitStore[k].resetAt <= now + RateLimits[k[1]].windowMs
  /\ RateLimited =>
       /\ (last.call.before.present
             /\ last.call.before.resetAt < last.at) =>
            /\ last.call.allowed
            /\ last.call.after.resetAt = last.at + Window(last.call)
       /\ (last.call.before.present
             /\ last.at <= last.call.before.resetAt) =>
            last.call.after.resetAt = last.call.before.resetAt

C27_Witness ==
  /\ RateLimited
  /\ last.call.policy = "write"
  /\ last.call.before.present
  /\ last.call.before.count = WriteMaxRequests
  /\ last.call.before.resetAt < last.at
  /\ last.call.allowed
  /\ last.nth = 1

\* the counters of a store that are live at time t
Live(store, t) ==
  [k \in DOMAIN store |->
     IF store[k].present /\ store[k].resetAt >= t THEN store[k]
     ELSE NoEntry]

\* C28: the sweep deletes only counters whose window has elapsed; from every
\* store the program reaches, a check answers the same allowed, remaining
\* and reset and leaves the same live counters whether or not the sweep
\* runs in it; and a check in which the sweep runs leaves no expired
\* counter.  The stores are those between two requests.
C28_SweepIsInvisible ==
  /\ RateLimited =>
       \A d \in last.call.deleted : d.resetAt < last.at
  /\ last = NoRequest =>
     \A key \in RateLimitKeys, policy \in Policies :
       LET with    == checkRateLimit(rateLimitStore, key, RateLimits[policy],
                                     now, TRUE)
           without == checkRateLimit(rateLimitStore, key, RateLimits[policy],
                                     now, FALSE)
       IN  /\ with.allowed = without.allowed
           /\ with.info = without.info
           /\ Live(with.store, now) = Live(without.store, now)
           /\ with.store = Live(with.store, now)

C28_Witness ==
  /\ RateLimited
  /\ last.call.allowed
  /\ \E d \in last.call.deleted : d.key # last.call.fullKey
  /\ \E k \in FullKeys :
       /\ k # last.call.fullKey
       /\ rateLimitStore[k].present
       /\ rateLimitStore[k].resetAt >= now

\* the counter a request of the profile and project routes is checked on
CounterOf(request) ==
  <<request.call.policy, getRateLimitKeyForUser(request.user)>>

\* C29: a check for one (keyPrefix, key) leaves every live counter of another
\* pair as it was, so a caller's read counter is untouched by the caller's
\* write requests and by the requests of another caller.
C29_CountersAreIndependent ==
  [][(last' # NoRequest /\ last'.call.called) =>
       \A k \in FullKeys :
         (k # CounterOf(last') /\ rateLimitStore[k].present
            /\ rateLimitStore[k].resetAt >= now) =>
           rateLimitStore'[k] = rateLimitStore[k]]_vars

C29_Witness ==
  /\ RateLimited
  /\ last.call.policy = "read"
  /\ last.user = "u1"
  /\ last.call.allowed
  /\ last.call.fresh
  /\ rateLimitStore[<<"write", getRateLimitKeyForUser("u1")>>].present
  /\ rateLimitStore[<<"write", getRateLimitKeyForUser("u1")>>].count
       = WriteMaxRequests
  /\ rateLimitStore[<<"write", getRateLimitKeyForUser("u1")>>].resetAt >= now
  /\ rateLimitStore[<<"read", getRateLimitKeyForUser("u2")>>].present
  /\ rateLimitStore[<<"read", getRateLimitKeyForUser("u2")>>].count
       = ReadMaxRequests

\* the requests that a check on counter k allowed in the window that ends at w
AllowedIn(k, w) ==
  {r \in InFlight : /\ pending[r].pc = "answered"
                    /\ pending[r].allowed
                    /\ pending[r].fullKey = k
                    /\ pending[r].window = w}

\* C24: under every interleaving of concurrent requests, the checks that
\* return allowed on one counter within one window are at most the
\* maxRequests of the counter's policy; a request that is allowed is passed
\* to its handler and one that is not is answered 429.
C24_AtMostMaxRequestsAllowed ==
  /\ \A k \in FullKeys, r \in InFlight :
       Cardinality(AllowedIn(k, pending[r].window))
         <= RateLimits[k[1]].maxRequests
  /\ \A r \in InFlight :
       pending[r].pc = "answered" =>
         (pending[r].allowed <=> pending[r].status # 429)

C24_Witness ==
  \E a \in InFlight, b \in InFlight :
    /\ pending[a].pc = "answered" /\ pending[b].pc = "answered"
    /\ pending[a].fullKey = pending[b].fullKey
    /\ pending[a].window = pending[b].window
    /\ pending[a].overlapped
    /\ pending[a].allowed
    /\ ~pending[b].allowed
    /\ pending[b].status = 429

\* C25: from a state with a super admin, after any interleaving of DELETE
\* and PATCH /admin/users/:id requests a profile with the role super_admin
\* remains, and no request deletes the account of its caller.
C25_SuperAdminRemains ==
  /\ \E u \in UserIds : tables.profiles[u] = "super_admin"
  /\ \A r \in InFlight :
       (pending[r].pc = "audit" /\ pending[r].method = "DELETE") =>
         pending[r].target # pending[r].caller

\* C26: a request whose caller's resolved role is admin writes no profile
\* whose role is admin or super_admin and gives no profile the role admin or
\* super_admin.
C26_AdminNeverGrantsAdmin ==
  \A r \in InFlight :
    (pending[r].pc = "audit" /\ pending[r].role = "admin") =>
      /\ pending[r].wrote.from \notin {"admin", "super_admin"}
      /\ pending[r].wrote.to \notin {"admin", "super_admin"}

====
